---- MODULE Spec2Model ----
(***************************************************************************)
(* Model of the jellyfin_export reconciliation engine                      *)
(* (src/jellyfin_export/{utils,exporter,sync,api}.py).                     *)
(*                                                                         *)
(* Strings (titles, extensions, paths) are sequences of atoms: an atom is  *)
(* one character ("/", ".", " ", ":") or an unbroken run of letters that   *)
(* no string function of the code looks inside ("mkv", "lib").             *)
(***************************************************************************)
EXTENDS Integers, Sequences, FiniteSets, TLC

VARIABLES
    ent,         \* the Drive Entity table: name -> row
    fs,          \* the filesystem: path -> node (sources and export tree)
    map,         \* the Jellyfin Export Map table: a set of rows
    PATH_CACHE,  \* exporter.PATH_CACHE, the module-global path cache
    settings,    \* the Jellyfin Export Settings single
    jobs,        \* background jobs: job id -> its position and arguments
    locks,       \* redis locks: key -> holder (NoJob when free)
    muts         \* number of catalog mutations so far (bounded by MaxMut)

vars == <<ent, fs, map, PATH_CACHE, settings, jobs, locks, muts>>

(***************************** bounds **************************************)
\* catalog mutations per behaviour
MaxMut == 2

(***************************** text ****************************************)
SEP == "/"
NUL == "NUL"
White == {" ", "\t"}
\* the characters of utils.safe_name's character class
Unsafe == {"/", "\\", ":", "*", "?", "<", ">", "|", "QUOTE"}

SetMax(S) == CHOOSE x \in S : \A y \in S : y <= x
SetMin(S) == CHOOSE x \in S : \A y \in S : x <= y

\* str.strip()
Strip(s) ==
    LET idx == {i \in 1..Len(s) : s[i] \notin White}
    IN  IF idx = {} THEN <<>> ELSE SubSeq(s, SetMin(idx), SetMax(idx))

\* str.lower(), atom by atom
LowerAtom(c) ==
    CASE c = "MKV" -> "mkv"
      [] c = "SRT" -> "srt"
      [] c = "JPG" -> "jpg"
      [] c = "TXT" -> "txt"
      [] OTHER -> c

lower(s) == [i \in 1..Len(s) |-> LowerAtom(s[i])]

DEFAULT_VIDEO_EXTS ==
    {<<".", "mp4">>, <<".", "mkv">>, <<".", "avi">>, <<".", "mov">>,
     <<".", "webm">>, <<".", "m4v">>}
DEFAULT_SUB_EXTS ==
    {<<".", "srt">>, <<".", "ass">>, <<".", "ssa">>, <<".", "vtt">>, <<".", "sub">>}
DEFAULT_IMG_EXTS ==
    {<<".", "jpg">>, <<".", "jpeg">>, <<".", "png">>, <<".", "webp">>}

safe_name(name) ==
    LET n1 == SelectSeq(name, LAMBDA c : c # NUL)
        n2 == Strip(n1)
        n3 == [i \in 1..Len(n2) |-> IF n2[i] \in Unsafe THEN "_" ELSE n2[i]]
    IN  IF n3 = <<>> THEN <<"untitled">> ELSE n3

\* os.path.splitext: <<root, ext>>
splitext(p) ==
    LET seps == {i \in 1..Len(p) : p[i] = SEP}
        sepIndex == IF seps = {} THEN 0 ELSE SetMax(seps)
        dots == {i \in 1..Len(p) : p[i] = "."}
        dotIndex == IF dots = {} THEN 0 ELSE SetMax(dots)
    IN  IF dotIndex > sepIndex /\ \E k \in (sepIndex + 1)..(dotIndex - 1) : p[k] # "."
        THEN <<SubSeq(p, 1, dotIndex - 1), SubSeq(p, dotIndex, Len(p))>>
        ELSE <<p, <<>>>>

\* a variant that looks at the title first
split_ext_title_first(title, file_ext) ==
    IF splitext(title)[2] # <<>> THEN lower(splitext(title)[2])
    ELSE IF file_ext # <<>>
    THEN LET ext == lower(Strip(file_ext))
         IN  IF ext # <<>> /\ ext[1] = "." THEN ext ELSE <<".">> \o ext
    ELSE <<>>

split_ext(title, file_ext) ==
    IF file_ext # <<>>
    THEN LET ext == lower(Strip(file_ext))
         IN  IF ext # <<>> /\ ext[1] = "." THEN ext ELSE <<".">> \o ext
    ELSE lower(splitext(title)[2])

\* str.split(","): the pieces between the commas
RECURSIVE SplitComma(_)
SplitComma(s) ==
    LET commas == {i \in 1..Len(s) : s[i] = ","}
    IN  IF commas = {} THEN <<s>>
        ELSE LET i == SetMin(commas)
             IN  <<SubSeq(s, 1, i - 1)>> \o SplitComma(SubSeq(s, i + 1, Len(s)))

\* a set of extensions; {} stands for None
parse_allowed_exts(s) ==
    IF s = <<>> THEN {}
    ELSE LET parts == SplitComma(s)
             ps == {lower(Strip(parts[i])) : i \in 1..Len(parts)} \ {<<>>}
         IN  {IF p[1] = "." THEN p ELSE <<".">> \o p : p \in ps}

(***************************** paths ***************************************)
\* os.path.join(a, b)
Join(a, b) ==
    IF b # <<>> /\ b[1] = SEP THEN b
    ELSE IF a = <<>> \/ a[Len(a)] = SEP THEN a \o b
    ELSE a \o <<SEP>> \o b

\* os.path.join(base, *parts)
RECURSIVE JoinAll(_, _)
JoinAll(base, parts) ==
    IF parts = <<>> THEN base ELSE JoinAll(Join(base, Head(parts)), Tail(parts))

\* os.path.dirname
dirname(p) ==
    LET seps == {i \in 1..Len(p) : p[i] = SEP}
        i == IF seps = {} THEN 0 ELSE SetMax(seps)
        head == SubSeq(p, 1, i)
        keep == {k \in 1..Len(head) : head[k] # SEP}
    IN  IF keep = {} THEN head ELSE SubSeq(head, 1, SetMax(keep))

IsPrefix(p, q) == Len(p) <= Len(q) /\ SubSeq(q, 1, Len(p)) = p

\* q is p itself or lies below the directory p
Under(p, q) == q = p \/ IsPrefix(p \o <<SEP>>, q)

(***************************** filesystem **********************************)
\* A node is a directory, a regular file or a symbolic link.  dev and ino
\* are st_dev and st_ino; data names the source file whose bytes a regular
\* file holds.
NoNode == [kind |-> "none", dev |-> "", ino |-> <<>>, data |-> <<>>, target |-> <<>>]
DirNode(dev, p) == [kind |-> "dir", dev |-> dev, ino |-> p, data |-> <<>>, target |-> <<>>]
FileNode(dev, ino, data) ==
    [kind |-> "file", dev |-> dev, ino |-> ino, data |-> data, target |-> <<>>]
LinkNode(dev, p, target) ==
    [kind |-> "link", dev |-> dev, ino |-> p, data |-> <<>>, target |-> target]

Restrict(f, S) == [x \in S |-> f[x]]

\* os.path.lexists
lexists(f, p) == p \in DOMAIN f

\* os.stat: follows a symbolic link; NoNode stands for FileNotFoundError
stat(f, p) ==
    IF p \notin DOMAIN f THEN NoNode
    ELSE IF f[p].kind = "link"
         THEN IF f[p].target \in DOMAIN f /\ f[f[p].target].kind # "link"
              THEN f[f[p].target] ELSE NoNode
         ELSE f[p]

\* os.path.exists / isfile / isdir / islink
exists(f, p) == stat(f, p).kind # "none"
isfile(f, p) == stat(f, p).kind = "file"
isdir(f, p) == stat(f, p).kind = "dir"
islink(f, p) == p \in DOMAIN f /\ f[p].kind = "link"

\* os.mkdir under makedirs' exist_ok=True: [fs, ok]
mkdir(f, name) ==
    IF ~lexists(f, name) /\ isdir(f, dirname(name))
    THEN [fs |-> f @@ (name :> DirNode(stat(f, dirname(name)).dev, name)), ok |-> TRUE]
    ELSE [fs |-> f, ok |-> isdir(f, name)]

\* os.makedirs(name, exist_ok=True): [fs, ok]; ok = FALSE stands for the OSError
RECURSIVE makedirs(_, _)
makedirs(f, name) ==
    LET head == dirname(name)
        f1 == IF head # <<>> /\ head # name /\ ~exists(f, head)
              THEN makedirs(f, head).fs ELSE f
    IN  mkdir(f1, name)

ensure_dir(f, path) == makedirs(f, path)

\* a variant that compares st_ino
same_filesystem_compares_inodes(f, path_a, path_b) ==
    /\ exists(f, path_a)
    /\ exists(f, path_b)
    /\ stat(f, path_a).ino = stat(f, path_b).ino

same_filesystem(f, path_a, path_b) ==
    /\ exists(f, path_a)
    /\ exists(f, path_b)
    /\ stat(f, path_a).dev = stat(f, path_b).dev

_same_inode(f, src, dst) ==
    /\ exists(f, src)
    /\ exists(f, dst)
    /\ stat(f, src).dev = stat(f, dst).dev
    /\ stat(f, src).ino = stat(f, dst).ino

\* os.unlink and shutil.rmtree(ignore_errors=True)
unlink(f, p) == Restrict(f, DOMAIN f \ {p})
\* a variant that removes the directory entry and leaves what it holds
rmtree_keeps_content(f, p) == Restrict(f, DOMAIN f \ {p})
rmtree(f, p) == Restrict(f, {q \in DOMAIN f : ~Under(p, q)})

_remove_path_safely(f, p) ==
    IF p = <<>> THEN f
    ELSE IF islink(f, p) \/ isfile(f, p) THEN unlink(f, p)
    ELSE IF isdir(f, p) THEN rmtree(f, p)
    ELSE f

\* os.link, shutil.copy2, os.symlink: [fs, ok]; ok = FALSE stands for the OSError
os_link(f, src, dst) ==
    IF /\ src \in DOMAIN f /\ f[src].kind = "file"
       /\ ~lexists(f, dst) /\ isdir(f, dirname(dst))
       /\ f[src].dev = stat(f, dirname(dst)).dev
    THEN [fs |-> f @@ (dst :> f[src]), ok |-> TRUE]
    ELSE [fs |-> f, ok |-> FALSE]

\* shutil.copy2 writes over a regular file that is at dst (the bytes of its
\* inode change under every name of it) and raises SameFileError when dst is
\* the source's inode
copy2(f, src, dst) ==
    IF isfile(f, src) /\ ~lexists(f, dst) /\ isdir(f, dirname(dst))
    THEN [fs |-> f @@ (dst :> FileNode(stat(f, dirname(dst)).dev, dst, stat(f, src).data)),
          ok |-> TRUE]
    ELSE IF isfile(f, src) /\ lexists(f, dst) /\ f[dst].kind = "file"
            /\ ~_same_inode(f, src, dst)
    THEN [fs |-> [p \in DOMAIN f |->
                    IF f[p].kind = "file" /\ f[p].dev = f[dst].dev /\ f[p].ino = f[dst].ino
                    THEN [f[p] EXCEPT !.data = stat(f, src).data] ELSE f[p]],
          ok |-> TRUE]
    ELSE [fs |-> f, ok |-> FALSE]

os_symlink(f, src, dst) ==
    IF ~lexists(f, dst) /\ isdir(f, dirname(dst))
    THEN [fs |-> f @@ (dst :> LinkNode(stat(f, dirname(dst)).dev, dst, src)), ok |-> TRUE]
    ELSE [fs |-> f, ok |-> FALSE]

\* a variant that never hardlinks
link_or_copy_always_copies(f, src, dst, mode, root) ==
    IF lexists(f, dst) THEN [fs |-> f, ok |-> TRUE, used |-> "exists"]
    ELSE IF mode \in {"hardlink", "copy"}
    THEN copy2(f, src, dst) @@ [used |-> "copy"]
    ELSE os_symlink(f, src, dst) @@ [used |-> "symlink"]

\* [fs, ok, used]
_link_or_copy(f, src, dst, mode, root) ==
    IF lexists(f, dst) THEN [fs |-> f, ok |-> TRUE, used |-> "exists"]
    ELSE IF mode = "hardlink" /\ same_filesystem(f, src, root)
    THEN os_link(f, src, dst) @@ [used |-> "hardlink"]
    ELSE IF mode \in {"hardlink", "copy"}
    THEN copy2(f, src, dst) @@ [used |-> "copy"]
    ELSE os_symlink(f, src, dst) @@ [used |-> "symlink"]

(***************************** catalog *************************************)
NoId == "None"
Ids == {"R", "A", "B", "M", "S"}

\* frappe.get_doc("Drive Entity", name): NoEnt stands for DoesNotExistError
NoEnt == [name |-> NoId]
_get_entity(E, entity_name) ==
    IF entity_name \in DOMAIN E THEN E[entity_name] ELSE NoEnt

\* the fields PATH_CACHE holds for one entity
InfoOf(row) ==
    [name |-> row.name, title |-> row.title,
     parent_drive_entity |-> row.parent_drive_entity,
     is_active |-> row.is_active, trashed_on |-> row.trashed_on]

\* the cache build_path_cache(root_entity) leaves in PATH_CACHE (root exists)
build_path_cache(E, root_entity) ==
    LET root == E[root_entity]
        rows == IF root.lft # 0 /\ root.rgt # 0
                THEN {n \in DOMAIN E : E[n].lft > root.lft /\ E[n].rgt < root.rgt}
                ELSE {}
    IN  [n \in rows \cup {root_entity} |-> InfoOf(E[n])]

\* a variant whose rows carry no trashed_on
get_entity_info_without_trash(E, cache, entity_name) ==
    LET info == IF entity_name \in DOMAIN cache THEN cache[entity_name]
                ELSE _get_entity(E, entity_name)
    IN  IF info.name = NoId THEN info ELSE [info EXCEPT !.trashed_on = 0]

_get_entity_info(E, cache, entity_name) ==
    IF entity_name \in DOMAIN cache THEN cache[entity_name]
    ELSE _get_entity(E, entity_name)

\* [tag, parts]: tag "ok" (a list), "none" (None) or "raise" (get_doc raised)
RECURSIVE build_rel_walk(_, _, _, _, _, _)
build_rel_walk(E, cache, cur, stop_at, seen, parts) ==
    IF cur = NoId \/ cur \in seen THEN [tag |-> "ok", parts |-> parts]
    ELSE LET info == _get_entity_info(E, cache, cur)
         IN  IF info.name = NoId THEN [tag |-> "raise", parts |-> <<>>]
             ELSE IF info.is_active # 1 \/ info.trashed_on # 0
             THEN [tag |-> "none", parts |-> <<>>]
             ELSE IF info.name = stop_at THEN [tag |-> "ok", parts |-> parts]
             ELSE build_rel_walk(E, cache, info.parent_drive_entity, stop_at,
                                 seen \cup {cur}, <<safe_name(info.title)>> \o parts)

_build_rel_parts(E, cache, entity_name, stop_at) ==
    build_rel_walk(E, cache, entity_name, stop_at, {}, <<>>)

\* position of x in the row order ord (a sequence of all ids)
Pos(ord, x) == CHOOSE i \in 1..Len(ord) : ord[i] = x

\* the rows S in the order of key, ties in row order
RECURSIVE OrderBy(_, _, _)
OrderBy(S, key, ord) ==
    IF S = {} THEN <<>>
    ELSE LET x == CHOOSE x \in S : \A y \in S :
                      \/ key[x] < key[y]
                      \/ key[x] = key[y] /\ Pos(ord, x) <= Pos(ord, y)
         IN  <<x>> \o OrderBy(S \ {x}, key, ord)

RECURSIVE bfs_descendants(_, _, _, _)
bfs_descendants(E, ord, queue, out) ==
    IF queue = <<>> THEN out
    ELSE LET parent == Head(queue)
             children == OrderBy({n \in DOMAIN E : /\ E[n].parent_drive_entity = parent
                                                   /\ E[n].is_active = 1},
                                 [n \in DOMAIN E |-> 0], ord)
             kept == SelectSeq(children, LAMBDA c : E[c].trashed_on = 0)
             groups == SelectSeq(kept, LAMBDA c : E[c].is_group = 1)
         IN  bfs_descendants(E, ord, Tail(queue) \o groups, out \o kept)

\* the names _iter_descendants(root_entity) yields, in order (root exists)
_iter_descendants(E, root_entity, ord) ==
    LET root == E[root_entity]
    IN  IF root.lft # 0 /\ root.rgt # 0 /\ root.lft < root.rgt
        THEN LET rows == {n \in DOMAIN E : /\ E[n].lft >= root.lft
                                           /\ E[n].rgt <= root.rgt
                                           /\ E[n].is_active = 1}
                 sorted == OrderBy(rows, [n \in DOMAIN E |-> E[n].lft], ord)
             IN  SelectSeq(sorted, LAMBDA r : E[r].trashed_on = 0)
        ELSE bfs_descendants(E, ord, <<root_entity>>, <<>>)

(***************************** ledger **************************************)
NoRow == [name |-> <<>>, drive_entity |-> NoId, library_name |-> "", src_path |-> <<>>,
          export_path |-> <<>>, export_type |-> "", status |-> "", last_error |-> ""]

RowsOf(m, entity_name) == {r \in m : r.drive_entity = entity_name}

\* frappe.db.get_value("Jellyfin Export Map", {"drive_entity": ...}): one row or NoRow
_get_map(m, entity_name) ==
    LET rows == RowsOf(m, entity_name)
    IN  IF rows = {} THEN NoRow
        ELSE CHOOSE r \in rows : \A r2 \in rows : r2.name[2] <= r.name[2]

_upsert_map(m, entity_name, library_name, src, dst, export_type, status, err) ==
    LET existing == _get_map(m, entity_name)
        name == IF existing # NoRow THEN existing.name
                ELSE <<entity_name, Cardinality(RowsOf(m, entity_name))>>
        doc == [name |-> name, drive_entity |-> entity_name, library_name |-> library_name,
                src_path |-> src, export_path |-> dst, export_type |-> export_type,
                status |-> status, last_error |-> err]
    IN  (m \ {existing}) \cup {doc}

(***************************** engine state ********************************)
\* What one engine call works on: the filesystem, the ledger, the log of what
\* it did (each entry: event, entity, path, detail) and whether an exception
\* left it.  Every ledger write stamps last_exported_on with the current time;
\* the log's "upsert" and "mark" entries stand for those writes.
St(f, m) == [fs |-> f, map |-> m, log |-> <<>>, raised |-> FALSE]
Ev(ev, who, p, x) == [ev |-> ev, who |-> who, p |-> p, x |-> x]

StLog(st, e) == [st EXCEPT !.log = Append(@, e)]

StRaise(st, who) ==
    [st EXCEPT !.raised = TRUE, !.log = Append(@, Ev("raise", who, <<>>, ""))]

StRemove(st, who, p) ==
    [st EXCEPT !.fs = _remove_path_safely(st.fs, p),
               !.log = Append(@, Ev("rm", who, p,
                                    IF lexists(st.fs, p) THEN "hit" ELSE "miss"))]

StUpsert(st, entity_name, library_name, src, dst, export_type, status, err) ==
    [st EXCEPT !.map = _upsert_map(st.map, entity_name, library_name, src, dst,
                                   export_type, status, err),
               !.log = Append(@, Ev("upsert", entity_name, dst, status))]

(***************************** export_entity *******************************)
\* a variant that leaves a renamed folder's old directory in place
export_entity_folder_keeps_old(st, E, cache, e, library_name, library_root_entity, export_base) ==
    LET rel == _build_rel_parts(E, cache, e.name, library_root_entity)
    IN  IF rel.tag = "raise" THEN StRaise(st, e.name)
        ELSE IF rel.tag = "none"
        THEN LET m == _get_map(st.map, e.name)
                 s1 == IF m # NoRow /\ m.export_path # <<>>
                       THEN StRemove(st, e.name, m.export_path) ELSE st
             IN  StUpsert(s1, e.name, library_name, <<>>, <<>>, "folder", "skipped",
                          "Invalid Ancestor")
        ELSE LET folder_dst == IF rel.parts # <<>> THEN JoinAll(export_base, rel.parts)
                               ELSE export_base
                 d == ensure_dir(st.fs, folder_dst)
                 s1 == [st EXCEPT !.fs = d.fs]
             IN  IF ~d.ok THEN StRaise(s1, e.name)
                 ELSE StUpsert(s1, e.name, library_name, <<>>, folder_dst, "folder",
                               "exported", "")

\* the folder case (e is the entity's row, export_base exists)
export_entity_folder(st, E, cache, e, library_name, library_root_entity, export_base) ==
    LET rel == _build_rel_parts(E, cache, e.name, library_root_entity)
    IN  IF rel.tag = "raise" THEN StRaise(st, e.name)
        ELSE IF rel.tag = "none"
        THEN LET m == _get_map(st.map, e.name)
                 s1 == IF m # NoRow /\ m.export_path # <<>>
                       THEN StRemove(st, e.name, m.export_path) ELSE st
             IN  StUpsert(s1, e.name, library_name, <<>>, <<>>, "folder", "skipped",
                          "Invalid Ancestor")
        ELSE LET folder_dst == IF rel.parts # <<>> THEN JoinAll(export_base, rel.parts)
                               ELSE export_base
                 d == ensure_dir(st.fs, folder_dst)
                 s1 == [st EXCEPT !.fs = d.fs]
                 m == _get_map(s1.map, e.name)
                 s2 == IF m # NoRow /\ m.export_path # <<>> /\ m.export_path # folder_dst
                       THEN StRemove(s1, e.name, m.export_path) ELSE s1
             IN  IF ~d.ok THEN StRaise(s1, e.name)
                 ELSE StUpsert(s2, e.name, library_name, <<>>, folder_dst, "folder",
                               "exported", "")

\* the collision name: the entity's id before the extension
SuffixedDst(dst, name) ==
    LET be == splitext(dst) IN be[1] \o <<"__", name>> \o be[2]

\* the file case from the link step on (dst is decided)
export_entity_link(st, e, library_name, src, dst, link_mode, export_root) ==
    LET d == ensure_dir(st.fs, dirname(dst))
        r == _link_or_copy(d.fs, src, dst, link_mode, export_root)
        s1 == StLog([st EXCEPT !.fs = r.fs], Ev("link", e.name, dst, r.used))
    IN  IF ~d.ok THEN StRaise([st EXCEPT !.fs = d.fs], e.name)
        ELSE IF r.ok
        THEN StUpsert(s1, e.name, library_name, src, dst, "file", "exported", "")
        ELSE StUpsert(s1, e.name, library_name, src, dst, "file", "error", "OSError")

\* a variant that leaves the old export of a renamed file in place
export_entity_place_keeps_old(st, e, library_name, src, desired_dst, link_mode, export_root) ==
    LET d == ensure_dir(st.fs, dirname(desired_dst))
        s0 == [st EXCEPT !.fs = d.fs]
        m == _get_map(s0.map, e.name)
        has == m # NoRow /\ m.export_path # <<>>
        old_dst == Strip(m.export_path)
    IN  IF ~d.ok THEN StRaise(s0, e.name)
        ELSE IF /\ has /\ old_dst = desired_dst /\ exists(s0.fs, old_dst)
                /\ (link_mode # "hardlink" \/ _same_inode(s0.fs, src, old_dst))
        THEN s0
        ELSE IF exists(s0.fs, desired_dst)
        THEN IF link_mode = "hardlink" /\ _same_inode(s0.fs, src, desired_dst)
             THEN StUpsert(s0, e.name, library_name, src, desired_dst, "file",
                           "exported", "")
             ELSE export_entity_link(s0, e, library_name, src,
                                     SuffixedDst(desired_dst, e.name), link_mode,
                                     export_root)
        ELSE export_entity_link(s0, e, library_name, src, desired_dst, link_mode,
                                export_root)

\* the file case from the desired path on (the entity passed the filters)
export_entity_place(st, e, library_name, src, desired_dst, link_mode, export_root) ==
    LET d == ensure_dir(st.fs, dirname(desired_dst))
        s0 == [st EXCEPT !.fs = d.fs]
        m == _get_map(s0.map, e.name)
        has == m # NoRow /\ m.export_path # <<>>
        old_dst == Strip(m.export_path)
        s1 == IF has /\ old_dst # <<>> /\ old_dst # desired_dst /\ exists(s0.fs, old_dst)
              THEN StRemove(s0, e.name, old_dst) ELSE s0
    IN  IF ~d.ok THEN StRaise(s0, e.name)
        ELSE IF /\ has /\ old_dst = desired_dst /\ exists(s0.fs, old_dst)
                /\ (link_mode # "hardlink" \/ _same_inode(s0.fs, src, old_dst))
        THEN s0
        ELSE IF exists(s1.fs, desired_dst)
        THEN IF link_mode = "hardlink" /\ _same_inode(s1.fs, src, desired_dst)
             THEN StUpsert(s1, e.name, library_name, src, desired_dst, "file",
                           "exported", "")
             ELSE export_entity_link(s1, e, library_name, src,
                                     SuffixedDst(desired_dst, e.name), link_mode,
                                     export_root)
        ELSE export_entity_link(s1, e, library_name, src, desired_dst, link_mode,
                                export_root)

\* the file case (e is the entity's row, export_base exists)
export_entity_file(st, E, cache, e, library_name, library_root_entity, export_root, export_base, link_mode, include_images, allowed_exts) ==
    LET src == Strip(e.path)
        ext == split_ext(e.title, e.file_ext)
        video_exts == IF allowed_exts # {} THEN allowed_exts ELSE DEFAULT_VIDEO_EXTS
        is_video == ext \in video_exts
        is_sub == ext \in DEFAULT_SUB_EXTS
        is_img == include_images /\ ext \in DEFAULT_IMG_EXTS
        rel == _build_rel_parts(E, cache, e.name, library_root_entity)
        m == _get_map(st.map, e.name)
        s1 == IF m # NoRow /\ m.export_path # <<>>
              THEN StRemove(st, e.name, m.export_path) ELSE st
        rel_parts == IF rel.parts = <<>> THEN <<safe_name(e.title)>> ELSE rel.parts
    IN  IF src = <<>> \/ ~exists(st.fs, src)
        THEN StUpsert(st, e.name, library_name, src, <<>>, "file", "error",
                      "Missing src path")
        ELSE IF ~(is_video \/ is_sub \/ is_img)
        THEN StUpsert(st, e.name, library_name, src, <<>>, "file", "skipped", "")
        ELSE IF rel.tag = "raise" THEN StRaise(st, e.name)
        ELSE IF rel.tag = "none"
        THEN StUpsert(s1, e.name, library_name, src, <<>>, "file", "skipped",
                      "Invalid Ancestor")
        ELSE export_entity_place(st, e, library_name, src,
                                 JoinAll(export_base, rel_parts), link_mode, export_root)

export_entity(st, E, cache, entity_name, library_name, library_root_entity, export_root, export_subdir, link_mode, include_images, allowed_exts) ==
    LET e == _get_entity(E, entity_name)
        s0 == StLog(st, Ev("call", entity_name, <<>>, ""))
        export_base == Join(export_root, export_subdir)
        d == ensure_dir(s0.fs, export_base)
        s1 == [s0 EXCEPT !.fs = d.fs]
    IN  IF st.raised THEN st
        ELSE IF e = NoEnt THEN StRaise(s0, entity_name)
        ELSE IF e.trashed_on # 0 \/ e.is_active # 1 THEN s0
        ELSE IF ~d.ok THEN StRaise(s1, entity_name)
        ELSE IF e.is_group = 1
        THEN export_entity_folder(s1, E, cache, e, library_name, library_root_entity,
                                  export_base)
        ELSE export_entity_file(s1, E, cache, e, library_name, library_root_entity,
                                export_root, export_base, link_mode, include_images,
                                allowed_exts)

(***************************** export_subtree ******************************)
RECURSIVE export_rows(_, _, _, _, _, _, _, _, _, _, _)
export_rows(st, E, cache, rows, library_name, library_root_entity, export_root, export_subdir, link_mode, include_images, allowed_exts) ==
    IF rows = <<>> THEN st
    ELSE export_rows(export_entity(st, E, cache, Head(rows), library_name,
                                   library_root_entity, export_root, export_subdir,
                                   link_mode, include_images, allowed_exts),
                     E, cache, Tail(rows), library_name, library_root_entity,
                     export_root, export_subdir, link_mode, include_images, allowed_exts)

\* ord: the order in which the database returns rows it was not asked to sort
export_subtree(st, E, root_entity, library_name, library_root_entity, export_root, export_subdir, link_mode, include_images, allowed_exts, ord) ==
    IF root_entity \notin DOMAIN E THEN StRaise(st, root_entity)
    ELSE LET cache == build_path_cache(E, root_entity)
             s1 == export_entity(st, E, cache, root_entity, library_name,
                                 library_root_entity, export_root, export_subdir,
                                 link_mode, include_images, allowed_exts)
         IN  export_rows(s1, E, cache, _iter_descendants(E, root_entity, ord),
                         library_name, library_root_entity, export_root, export_subdir,
                         link_mode, include_images, allowed_exts)

(***************************** remove_export *******************************)
\* a variant whose UPDATE also empties export_path
MarkDeleted_clears_path(m, hits) ==
    {IF r \in hits THEN [r EXCEPT !.status = "deleted", !.export_path = <<>>] ELSE r : r \in m}

\* UPDATE ... SET status='deleted', last_exported_on=NOW() on the rows hit
MarkDeleted(m, hits) ==
    {IF r \in hits THEN [r EXCEPT !.status = "deleted"] ELSE r : r \in m}

remove_export(st, E, entity_name) ==
    LET m == _get_map(st.map, entity_name)
        dst == Strip(m.export_path)
        s0 == StLog(st, Ev("remove_export", entity_name, <<>>, ""))
        s1 == IF dst # <<>> THEN StRemove(s0, entity_name, dst) ELSE s0
        s2 == StLog([s1 EXCEPT !.map = MarkDeleted(s1.map, {r \in s1.map : r.name = m.name})],
                    Ev("mark", entity_name, <<>>, "self"))
        e == _get_entity(E, entity_name)
        descendants == {n \in DOMAIN E : E[n].lft > e.lft /\ E[n].rgt < e.rgt}
    IN  IF m = NoRow THEN st
        ELSE IF e # NoEnt /\ e.is_group = 1 /\ e.lft # 0 /\ e.rgt # 0 /\ descendants # {}
        THEN StLog([s2 EXCEPT !.map = MarkDeleted(s2.map,
                                         {r \in s2.map : r.drive_entity \in descendants})],
                   Ev("mark", entity_name, <<>>, "descendants"))
        ELSE s2

(***************************** cleanup_invalid_exports *********************)
RECURSIVE cleanup_rows(_, _, _)
cleanup_rows(st, E, rows) ==
    IF rows = <<>> THEN st
    ELSE LET row == Head(rows)
             should_remove ==
                 \/ row.status # "deleted"
                 \/ row.export_path # <<>> /\ lexists(st.fs, row.export_path)
         IN  cleanup_rows(IF should_remove THEN remove_export(st, E, row.drive_entity)
                          ELSE st,
                          E, Tail(rows))

\* the rows S as the sequence a SELECT returns them in, under the row order ord
RECURSIVE RowSeq(_, _)
RowSeq(S, ord) ==
    IF S = {} THEN <<>>
    ELSE LET r == CHOOSE r \in S : \A q \in S :
                      \/ Pos(ord, r.drive_entity) < Pos(ord, q.drive_entity)
                      \/ r.drive_entity = q.drive_entity /\ r.name[2] <= q.name[2]
         IN  <<r>> \o RowSeq(S \ {r}, ord)

\* a variant whose SELECT joins the catalog with an inner join
cleanup_invalid_exports_inner_join(st, E, library_name, ord) ==
    LET invalid_maps ==
            {r \in st.map : /\ r.library_name = library_name
                            /\ r.drive_entity \in DOMAIN E
                            /\ \/ E[r.drive_entity].is_active # 1
                               \/ E[r.drive_entity].trashed_on # 0}
    IN  cleanup_rows(st, E, RowSeq(invalid_maps, ord))

\* the rows of the SELECT, in the row order ord
cleanup_invalid_exports(st, E, library_name, ord) ==
    LET invalid_maps ==
            {r \in st.map : /\ r.library_name = library_name
                            /\ \/ r.drive_entity \notin DOMAIN E
                               \/ E[r.drive_entity].is_active # 1
                               \/ E[r.drive_entity].trashed_on # 0}
    IN  cleanup_rows(st, E, RowSeq(invalid_maps, ord))

(***************************** settings and callers ************************)
SRC_DEV == "d1"
ROOT == <<SEP>>
SRC_M == <<SEP, "s", SEP, "M">>
SRC_S == <<SEP, "s", SEP, "S">>
EXPORT_ROOT == <<SEP, "x">>

LIB == [library_name |-> "lib", enabled |-> 1, root_drive_entity |-> "R",
        export_subdir |-> <<"lib">>, allowed_extensions |-> <<>>]

Settings(link_mode, include_images, allowed_extensions) ==
    [enabled |-> 1, export_root |-> EXPORT_ROOT, link_mode |-> link_mode,
     include_images |-> include_images,
     libraries |-> <<[LIB EXCEPT !.allowed_extensions = allowed_extensions]>>]

\* the enabled library rows that name a root
EnabledLibs(S) ==
    SelectSeq(S.libraries, LAMBDA lib : lib.enabled = 1 /\ lib.root_drive_entity # NoId)

\* settings.link_mode or "hardlink"; int(settings.include_images or 0) == 1
LinkMode(S) == IF S.link_mode = "" THEN "hardlink" ELSE S.link_mode
IncludeImages(S) == S.include_images = 1

\* lib.export_subdir or lib.library_name
ExportSubdir(lib) ==
    IF lib.export_subdir # <<>> THEN lib.export_subdir ELSE <<lib.library_name>>

\* the library a call is made for
TheLib == Head(EnabledLibs(settings))

(***************************** the engine's calls **************************)
\* row orders the database may answer in
Orders == {<<"R", "A", "B", "M", "S">>, <<"R", "B", "A", "S", "M">>}

\* a call's effect on the disk and on the ledger
Apply(st) ==
    /\ fs' = st.fs
    /\ map' = st.map
    /\ UNCHANGED <<ent, settings, jobs, locks, muts>>

\* The engine is entered the way sync.run_export_job, api._sync_library_job and
\* sync.run_delete_job enter it: export_entity for what the catalog does not
\* call a group, export_subtree for a group, remove_export for an entity that
\* was trashed, emptied from the trash or deleted.
IsGroup(E, i) == i \in DOMAIN E /\ E[i].is_group = 1
IsGone(E, i) ==
    IF i \in DOMAIN E THEN ~(E[i].is_active = 1 /\ E[i].trashed_on = 0) ELSE TRUE

\* reconcileOne
ExportEntity(i) ==
    /\ ~IsGroup(ent, i)
    /\ Apply(export_entity(St(fs, map), ent, PATH_CACHE, i, TheLib.library_name,
                           TheLib.root_drive_entity, settings.export_root,
                           ExportSubdir(TheLib), LinkMode(settings),
                           IncludeImages(settings),
                           parse_allowed_exts(TheLib.allowed_extensions)))
    /\ UNCHANGED PATH_CACHE

\* reconcileSubtree; the cache is cleared on the way out
ExportSubtree(i, ord) ==
    /\ IsGroup(ent, i)
    /\ Apply(export_subtree(St(fs, map), ent, i, TheLib.library_name,
                            TheLib.root_drive_entity, settings.export_root,
                            ExportSubdir(TheLib), LinkMode(settings),
                            IncludeImages(settings),
                            parse_allowed_exts(TheLib.allowed_extensions), ord))
    /\ PATH_CACHE' = <<>>

RemoveExport(i) ==
    /\ IsGone(ent, i)
    /\ Apply(remove_export(St(fs, map), ent, i))
    /\ UNCHANGED PATH_CACHE

CleanupInvalidExports(library_name, ord) ==
    /\ Apply(cleanup_invalid_exports(St(fs, map), ent, library_name, ord))
    /\ UNCHANGED PATH_CACHE

(***************************** the catalog's changes ***********************)
\* What the Drive application does to the catalog and to the source files
\* between the engine's calls.
NewTitle(i) ==
    CASE i = "A" -> {<<"A2">>}
      [] i = "M" -> {<<" ", "N", ":", ".", "MKV">>, <<"S", ".", "srt">>}
      [] i = "S" -> {<<"M", ".", "mkv">>}
      [] OTHER -> {}

Mutate(E, f) ==
    /\ muts < MaxMut
    /\ muts' = muts + 1
    /\ ent' = E
    /\ fs' = f
    /\ UNCHANGED <<map, PATH_CACHE, settings, jobs, locks>>

Rename(i, t) ==
    /\ i \in DOMAIN ent
    /\ t \in NewTitle(i)
    /\ ent[i].title # t
    /\ Mutate([ent EXCEPT ![i].title = t], fs)

Trash(i) ==
    /\ i \in DOMAIN ent
    /\ ent[i].trashed_on = 0
    /\ Mutate([ent EXCEPT ![i].trashed_on = 1], fs)

\* emptied from the trash: is_active -> -1, path -> None
EmptyTrash(i) ==
    /\ i \in DOMAIN ent
    /\ ent[i].is_active = 1
    /\ Mutate([ent EXCEPT ![i].is_active = -1, ![i].path = <<>>], fs)

\* the source file disappears from the disk
RemoveSource(i) ==
    /\ i \in DOMAIN ent
    /\ ent[i].is_group = 0
    /\ lexists(fs, ent[i].path)
    /\ Mutate(ent, unlink(fs, ent[i].path))

\* the row of a file is deleted from the catalog
HardDelete(i) ==
    /\ i \in DOMAIN ent
    /\ ent[i].is_group = 0
    /\ Mutate(Restrict(ent, DOMAIN ent \ {i}), fs)

\* the folders that may appear: beside A with a title that sanitizes to A's,
\* or inside A with the title of file M
NewFolder == {<<"R", <<"A", " ">>>>, <<"A", <<"M", ".", "mkv">>>>}

\* a folder is created in parent; the nested-set insert makes it the parent's
\* last child and shifts the bounds to its right when the index is built
CreateFolder(i, parent, title) ==
    /\ i = "B"
    /\ i \notin DOMAIN ent
    /\ parent \in DOMAIN ent
    /\ LET right == ent[parent].rgt
           row == [name |-> i, title |-> title, parent_drive_entity |-> parent,
                   is_group |-> 1, is_active |-> 1, trashed_on |-> 0, path |-> <<>>,
                   file_ext |-> <<>>,
                   lft |-> IF right # 0 THEN right ELSE 0,
                   rgt |-> IF right # 0 THEN right + 1 ELSE 0]
           shifted == [n \in DOMAIN ent |->
                          [ent[n] EXCEPT
                              !.lft = IF right # 0 /\ @ > right THEN @ + 2 ELSE @,
                              !.rgt = IF right # 0 /\ @ >= right THEN @ + 2 ELSE @]]
       IN  Mutate((i :> row) @@ shifted, fs)

(***************************** initial states ******************************)
Folder(name, title, parent, lft, rgt) ==
    [name |-> name, title |-> title, parent_drive_entity |-> parent, is_group |-> 1,
     is_active |-> 1, trashed_on |-> 0, path |-> <<>>, file_ext |-> <<>>,
     lft |-> lft, rgt |-> rgt]
File(name, title, parent, path, file_ext, lft, rgt) ==
    [name |-> name, title |-> title, parent_drive_entity |-> parent, is_group |-> 0,
     is_active |-> 1, trashed_on |-> 0, path |-> path, file_ext |-> file_ext,
     lft |-> lft, rgt |-> rgt]

\* library root R holds folder A, which holds M.mkv and S.srt
Catalog ==
    ("R" :> Folder("R", <<"Root">>, NoId, 1, 8)) @@
    ("A" :> Folder("A", <<"A">>, "R", 2, 7)) @@
    ("M" :> File("M", <<"M", ".", "mkv">>, "A", SRC_M, <<>>, 3, 4)) @@
    ("S" :> File("S", <<"S", ".", "srt">>, "A", SRC_S, <<"SRT">>, 5, 6))

\* the same catalog before the nested-set index was ever built
Unindexed(E) == [n \in DOMAIN E |-> [E[n] EXCEPT !.lft = 0, !.rgt = 0]]

\* the disk: the sources on SRC_DEV, the export root on device dev
Disk(dev) ==
    (ROOT :> DirNode(SRC_DEV, ROOT)) @@
    (<<SEP, "s">> :> DirNode(SRC_DEV, <<SEP, "s">>)) @@
    (SRC_M :> FileNode(SRC_DEV, SRC_M, SRC_M)) @@
    (SRC_S :> FileNode(SRC_DEV, SRC_S, SRC_S)) @@
    (EXPORT_ROOT :> DirNode(dev, EXPORT_ROOT))

NoJob == 0

Init ==
    /\ ent \in {Catalog, Unindexed(Catalog)}
    /\ \E mode \in {"hardlink", "copy", "symlink"}, dev \in {SRC_DEV, "d2"} :
          /\ mode # "hardlink" => dev = SRC_DEV
          /\ settings = Settings(mode, 0, <<>>)
          /\ fs = Disk(dev)
    /\ map = {}
    /\ PATH_CACHE = <<>>
    /\ jobs = <<>>
    /\ locks = <<>>
    /\ muts = 0

Next ==
    \/ \E i \in Ids : ExportEntity(i)
    \/ \E i \in Ids, ord \in Orders : ExportSubtree(i, ord)
    \/ \E i \in Ids : RemoveExport(i)
    \/ \E l \in {"lib", "other"}, ord \in Orders : CleanupInvalidExports(l, ord)
    \/ \E i \in Ids : \E t \in NewTitle(i) : Rename(i, t)
    \/ \E i \in Ids : Trash(i)
    \/ \E i \in Ids : EmptyTrash(i)
    \/ \E i \in Ids : RemoveSource(i)
    \/ \E i \in Ids : HardDelete(i)
    \/ \E i \in Ids, f \in NewFolder : CreateFolder(i, f[1], f[2])

Spec == Init /\ [][Next]_vars

(***************************** the filter's inputs *************************)
\* titles and stored extensions of file M, extension lists of the library
FilterTitles ==
    {<<"M", ".", "mkv">>, <<"M", ".", "txt">>, <<"M", ".", "JPG">>, <<"M">>}
FilterExts == {<<>>, <<"TXT">>, <<".", "MKV">>, <<" ", "jpg">>}
FilterAllowed == {<<>>, <<"TXT", ",", " ", ".", "jpg">>, <<" ", ",">>}

InitFilter ==
    /\ \E title \in FilterTitles, file_ext \in FilterExts :
          ent = [Catalog EXCEPT !["M"].title = title, !["M"].file_ext = file_ext]
    /\ \E include_images \in {0, 1}, allowed \in FilterAllowed :
          settings = Settings("hardlink", include_images, allowed)
    /\ fs = Disk(SRC_DEV)
    /\ map = {}
    /\ PATH_CACHE = <<>>
    /\ jobs = <<>>
    /\ locks = <<>>
    /\ muts = 0

NextFilter ==
    \/ \E i \in Ids : ExportEntity(i)
    \/ \E i \in Ids, ord \in Orders : ExportSubtree(i, ord)

SpecFilter == InitFilter /\ [][NextFilter]_vars

(***************************** the path builder's inputs *******************)
\* Catalogs with any parent pointers, cycles among them: R, folders A and B,
\* file M, at most one of them inactive or in the trash.  The index is flat,
\* so that the cache of a subtree of R holds every row.
PathParents ==
    {p \in [{"R", "A", "B", "M"} -> {NoId, "R", "A", "B"}] :
        /\ p["R"] \in {NoId, "B"}
        /\ p["B"] # "B"
        /\ p["M"] # NoId}
PathFlags == {<<1, 0>>, <<0, 0>>, <<1, 1>>}

PathCatalog(p, bad, flags) ==
    LET E == ("R" :> Folder("R", <<"Root">>, p["R"], 1, 8)) @@
             ("A" :> Folder("A", <<"A">>, p["A"], 2, 3)) @@
             ("B" :> Folder("B", <<"B", ":", "b">>, p["B"], 4, 5)) @@
             ("M" :> File("M", <<"M", ".", "mkv">>, p["M"], SRC_M, <<>>, 6, 7))
    IN  [n \in DOMAIN E |->
           IF n = bad THEN [E[n] EXCEPT !.is_active = flags[1], !.trashed_on = flags[2]]
           ELSE E[n]]

\* export_subtree up to its first export_entity: build_path_cache(root_entity)
BuildPathCache(i) ==
    /\ IsGroup(ent, i)
    /\ PATH_CACHE' = build_path_cache(ent, i)
    /\ UNCHANGED <<ent, fs, map, settings, jobs, locks, muts>>

InitPath ==
    /\ \E p \in PathParents, bad \in {"R", "A", "B", "M"}, flags \in PathFlags :
          ent = PathCatalog(p, bad, flags)
    /\ settings = Settings("hardlink", 0, <<>>)
    /\ fs = Disk(SRC_DEV)
    /\ map = {}
    /\ PATH_CACHE = <<>>
    /\ jobs = <<>>
    /\ locks = <<>>
    /\ muts = 0

NextPath ==
    \/ \E i \in Ids : BuildPathCache(i)
    \/ \E i \in Ids : ExportEntity(i)

SpecPath == InitPath /\ [][NextPath]_vars

(***************************** background jobs ****************************)
\* The jobs of sync.py and api.py, each in a worker process of its own, with
\* the redis locks they take.  A job advances one engine call at a time; a
\* lock is held until its holder releases it (lock timeouts are not modelled).
MaxJobs == 2
JobIds == 1..MaxJobs
SITE == "site"

\* f"jellyfin_export:{site}:{library_name}", f"jellyfin_export:delete:{site}",
\* f"jellyfin_export:rebuild_tree:{site}"
LibraryLock(library_name) == <<"jellyfin_export", SITE, library_name>>
DeleteLock == <<"jellyfin_export", "delete", SITE>>
RebuildLock == <<"jellyfin_export", "rebuild_tree", SITE>>
LockKeys == {LibraryLock("lib"), DeleteLock, RebuildLock}

IdleJob ==
    [kind |-> "idle", pc |-> "idle", entity_name |-> NoId, library_name |-> "",
     root_entity |-> NoId, export_subdir |-> <<>>, is_group |-> 0, allowed_exts |-> {},
     cache |-> <<>>, todo |-> <<>>, doc |-> NoRow, existing |-> <<>>, used |-> "",
     made |-> <<>>, tree |-> <<>>]

\* frappe.utils.nestedset.rebuild_tree: number every row depth first from the
\* rows without parent, children by name
NameOrder == <<"A", "B", "M", "R", "S">>

\* rebuild_node's recursion as a walk with an explicit stack: a node takes the
\* next number as lft when it is entered and the next as rgt when it is left
RECURSIVE rebuild_node(_, _, _)
rebuild_node(E, stack, walk) ==
    IF stack = <<>> THEN walk
    ELSE LET n == Head(stack)[1]
             result == OrderBy({c \in DOMAIN E : E[c].parent_drive_entity = n},
                               [c \in DOMAIN E |-> 0], NameOrder)
         IN  IF Head(stack)[2] = "lft"
             THEN rebuild_node(E,
                               [k \in 1..Len(result) |-> <<result[k], "lft">>]
                                   \o <<<<n, "rgt">>>> \o Tail(stack),
                               Append(walk, <<n, "lft">>))
             ELSE rebuild_node(E, Tail(stack), Append(walk, <<n, "rgt">>))

rebuild_tree(E) ==
    LET roots == OrderBy({n \in DOMAIN E : E[n].parent_drive_entity = NoId},
                         [n \in DOMAIN E |-> 0], NameOrder)
        walk == rebuild_node(E, [k \in 1..Len(roots) |-> <<roots[k], "lft">>], <<>>)
        at(x) == CHOOSE k \in 1..Len(walk) : walk[k] = x
    IN  [n \in DOMAIN E |->
            [E[n] EXCEPT !.lft = at(<<n, "lft">>), !.rgt = at(<<n, "rgt">>)]]

\* the catalog rebuild_tree_safely leaves (it takes and releases RebuildLock)
rebuild_tree_safely(E) == rebuild_tree(E)

\* the number of descendants the walk over the active rows counts
RECURSIVE recursive_count(_, _)
recursive_count(E, queue) ==
    IF queue = {} THEN 0
    ELSE LET curr == CHOOSE c \in queue : TRUE
             children == {n \in DOMAIN E : /\ E[n].is_active = 1
                                           /\ E[n].parent_drive_entity = curr}
         IN  Cardinality(children) + recursive_count(E, (queue \ {curr}) \cup children)

\* a variant that looks at the bounds of the root only
needs_rebuild_bounds_only(E, root_entity) ==
    IF root_entity = NoId \/ root_entity \notin DOMAIN E THEN FALSE
    ELSE E[root_entity].lft = 0 \/ E[root_entity].rgt = 0

\* whether diagnose_and_heal_tree(root_entity) rebuilds
needs_rebuild(E, root_entity) ==
    IF root_entity = NoId \/ root_entity \notin DOMAIN E THEN FALSE
    ELSE LET root_doc == E[root_entity]
             ns_count == (root_doc.rgt - root_doc.lft - 1) \div 2
         IN  IF root_doc.lft = 0 \/ root_doc.rgt = 0 THEN TRUE
             ELSE ns_count # recursive_count(E, {root_entity})

diagnose_and_heal_tree(E, root_entity) ==
    IF needs_rebuild(E, root_entity) THEN rebuild_tree_safely(E) ELSE E

\* the library row whose root is entity_name or an ancestor of it, or NoRow
RECURSIVE library_walk(_, _, _, _)
library_walk(E, S, cur, seen) ==
    IF cur = NoId \/ cur \in seen THEN NoRow
    ELSE LET hit == SelectSeq(EnabledLibs(S), LAMBDA lib : lib.root_drive_entity = cur)
         IN  IF hit # <<>> THEN hit[Len(hit)]
             ELSE IF cur \notin DOMAIN E THEN NoRow
             ELSE library_walk(E, S, E[cur].parent_drive_entity, seen \cup {cur})

_get_library_for_entity(E, S, entity_name) == library_walk(E, S, entity_name, {})

Enqueue(j, job) ==
    /\ jobs[j].kind = "idle"
    /\ jobs' = [jobs EXCEPT ![j] = job]

\* a doc event of an entity: run_delete_job when it was emptied from the trash,
\* run_export_job when it lies in a library
on_drive_entity_change(j, i) ==
    LET info == _get_library_for_entity(ent, settings, i)
    IN  /\ settings.enabled = 1
        /\ i \in DOMAIN ent
        /\ IF ent[i].is_active = -1
           THEN Enqueue(j, [IdleJob EXCEPT !.kind = "delete", !.pc = "queued",
                                           !.entity_name = i])
           ELSE /\ info # NoRow
                /\ Enqueue(j, [IdleJob EXCEPT !.kind = "export", !.pc = "queued",
                                              !.entity_name = i,
                                              !.library_name = info.library_name,
                                              !.root_entity = info.root_drive_entity,
                                              !.export_subdir = ExportSubdir(info)])
        /\ UNCHANGED <<ent, fs, map, PATH_CACHE, settings, locks, muts>>

\* the entity goes to the trash and the trash event enqueues run_delete_job
on_drive_entity_trash(j, i) ==
    /\ settings.enabled = 1
    /\ i \in DOMAIN ent
    /\ ent[i].trashed_on = 0
    /\ muts < MaxMut
    /\ muts' = muts + 1
    /\ ent' = [ent EXCEPT ![i].trashed_on = 1]
    /\ Enqueue(j, [IdleJob EXCEPT !.kind = "delete", !.pc = "queued", !.entity_name = i])
    /\ UNCHANGED <<fs, map, PATH_CACHE, settings, locks>>

\* api.sync_library enqueues _sync_library_job
sync_library(j, library_name) ==
    LET hit == SelectSeq(settings.libraries,
                         LAMBDA row : row.library_name = library_name /\ row.enabled = 1)
    IN  /\ hit # <<>>
        /\ Enqueue(j, [IdleJob EXCEPT !.kind = "sync", !.pc = "queued",
                                      !.entity_name = Head(hit).root_drive_entity,
                                      !.library_name = Head(hit).library_name,
                                      !.root_entity = Head(hit).root_drive_entity,
                                      !.export_subdir = ExportSubdir(Head(hit)),
                                      !.is_group = 1])
        /\ UNCHANGED <<ent, fs, map, PATH_CACHE, settings, locks, muts>>

\* a variant in which the jobs are threads of one process and a job without
\* a cache of its own finds the cache another job has primed
JobCall_shared_cache(j, cache, i) ==
    LET primed == {k \in JobIds : k # j /\ jobs[k].cache # <<>>}
        found == IF cache = <<>> /\ primed # {}
                 THEN jobs[CHOOSE k \in primed : TRUE].cache ELSE cache
    IN  export_entity(St(fs, map), ent, found, i, jobs[j].library_name,
                      jobs[j].root_entity, settings.export_root, jobs[j].export_subdir,
                      LinkMode(settings), IncludeImages(settings), jobs[j].allowed_exts)

\* one export_entity call of job j, with the arguments the job was given
JobCall(j, cache, i) ==
    export_entity(St(fs, map), ent, cache, i, jobs[j].library_name,
                  jobs[j].root_entity, settings.export_root, jobs[j].export_subdir,
                  LinkMode(settings), IncludeImages(settings), jobs[j].allowed_exts)

\* run_export_job up to its lock: heal the index, read the settings and is_group
run_export_job_start(j) ==
    LET info == _get_library_for_entity(ent, settings, jobs[j].entity_name)
    IN  /\ jobs[j].kind = "export"
        /\ jobs[j].pc = "queued"
        /\ locks[RebuildLock] = NoJob
        /\ ent' = diagnose_and_heal_tree(ent, jobs[j].root_entity)
        /\ jobs' = [jobs EXCEPT
                      ![j].pc = "lock",
                      ![j].allowed_exts = IF info = NoRow THEN {}
                                          ELSE parse_allowed_exts(info.allowed_extensions),
                      ![j].is_group = IF IsGroup(ent, jobs[j].entity_name) THEN 1 ELSE 0]
        /\ UNCHANGED <<fs, map, PATH_CACHE, settings, locks, muts>>

\* with _redis_lock(lock_key): the job waits until the library's lock is free
run_export_job_lock(j) ==
    /\ jobs[j].kind = "export"
    /\ jobs[j].pc = "lock"
    /\ locks[LibraryLock(jobs[j].library_name)] = NoJob
    /\ locks' = [locks EXCEPT ![LibraryLock(jobs[j].library_name)] = j]
    /\ jobs' = [jobs EXCEPT ![j].pc = IF jobs[j].is_group = 1 THEN "subtree" ELSE "entity"]
    /\ UNCHANGED <<ent, fs, map, PATH_CACHE, settings, muts>>

\* _sync_library_job up to export_subtree: it takes no lock
sync_library_job_start(j) ==
    LET hit == SelectSeq(settings.libraries,
                         LAMBDA row : row.library_name = jobs[j].library_name)
    IN  /\ jobs[j].kind = "sync"
        /\ jobs[j].pc = "queued"
        /\ locks[RebuildLock] = NoJob
        /\ ent' = diagnose_and_heal_tree(ent, jobs[j].root_entity)
        /\ jobs' = [jobs EXCEPT
                      ![j].pc = "subtree",
                      ![j].allowed_exts = IF hit = <<>> THEN {}
                                          ELSE parse_allowed_exts(Head(hit).allowed_extensions)]
        /\ UNCHANGED <<fs, map, PATH_CACHE, settings, locks, muts>>

\* the job ends: its process's cache goes, and a with block it is in releases
\* its lock
JobEnd(j) ==
    /\ jobs' = [jobs EXCEPT ![j] = IdleJob]
    /\ locks' = [k \in DOMAIN locks |-> IF locks[k] = j THEN NoJob ELSE locks[k]]

\* The next export_entity call of a job inside the engine, and what the job
\* does around it.  At "entity": the one call of run_export_job for an entity
\* that is not a group.  At "subtree": export_subtree up to its loop, that is
\* build_path_cache, the call for the root, and the query of _iter_descendants.
\* At "rows": one turn of the loop.  After its last call, or when a call
\* raises, the job ends.
job_export_entity(j, ord) ==
    LET pc == jobs[j].pc
        root == jobs[j].entity_name
        cache == IF pc = "entity" THEN <<>>
                 ELSE IF pc = "subtree" THEN build_path_cache(ent, root)
                 ELSE jobs[j].cache
        item == IF pc = "rows" THEN Head(jobs[j].todo) ELSE root
        st == JobCall(j, cache, item)
        todo == IF pc = "entity" THEN <<>>
                ELSE IF pc = "subtree" THEN _iter_descendants(ent, root, ord)
                ELSE Tail(jobs[j].todo)
    IN  /\ pc \in {"entity", "subtree", "rows"}
        /\ pc # "subtree" => ord = CHOOSE o \in Orders : TRUE
        /\ IF pc = "subtree" /\ root \notin DOMAIN ent
           THEN JobEnd(j) /\ UNCHANGED <<fs, map>>
           ELSE /\ fs' = st.fs
                /\ map' = st.map
                /\ IF st.raised \/ todo = <<>> THEN JobEnd(j)
                   ELSE /\ jobs' = [jobs EXCEPT ![j].pc = "rows", ![j].cache = cache,
                                                ![j].todo = todo]
                        /\ UNCHANGED locks
        /\ UNCHANGED <<ent, PATH_CACHE, settings, muts>>

\* run_delete_job: with _redis_lock(key)
run_delete_job_lock(j) ==
    /\ jobs[j].kind = "delete"
    /\ jobs[j].pc = "queued"
    /\ locks[DeleteLock] = NoJob
    /\ locks' = [locks EXCEPT ![DeleteLock] = j]
    /\ jobs' = [jobs EXCEPT ![j].pc = "remove"]
    /\ UNCHANGED <<ent, fs, map, PATH_CACHE, settings, muts>>

run_delete_job_remove(j) ==
    /\ jobs[j].pc = "remove"
    /\ LET st == remove_export(St(fs, map), ent, jobs[j].entity_name)
       IN  fs' = st.fs /\ map' = st.map
    /\ JobEnd(j)
    /\ UNCHANGED <<ent, PATH_CACHE, settings, muts>>

InitJobs ==
    /\ ent \in {Catalog, Unindexed(Catalog)}
    /\ settings = Settings("hardlink", 0, <<>>)
    /\ fs = Disk(SRC_DEV)
    /\ map = {}
    /\ PATH_CACHE = <<>>
    /\ jobs = [j \in JobIds |-> IdleJob]
    /\ locks = [k \in LockKeys |-> NoJob]
    /\ muts = 0

NextJobs ==
    \/ \E j \in JobIds, i \in Ids : on_drive_entity_change(j, i)
    \/ \E j \in JobIds, i \in Ids : on_drive_entity_trash(j, i)
    \/ \E j \in JobIds : sync_library(j, "lib")
    \/ \E j \in JobIds : run_export_job_start(j)
    \/ \E j \in JobIds : run_export_job_lock(j)
    \/ \E j \in JobIds : sync_library_job_start(j)
    \/ \E j \in JobIds, ord \in Orders : job_export_entity(j, ord)
    \/ \E j \in JobIds : run_delete_job_lock(j)
    \/ \E j \in JobIds : run_delete_job_remove(j)

SpecJobs == InitJobs /\ [][NextJobs]_vars

(***************************** inside export_entity ************************)
\* The same jobs with the steps of one export_entity call apart: what the call
\* reads and decides, the link, and the save of the ledger row.  Other
\* processes run in between.
\* the job goes on with the rows it has left, or ends after the last one
Finish(j, cache, todo) ==
    IF todo = <<>> THEN JobEnd(j)
    ELSE /\ jobs' = [jobs EXCEPT ![j].pc = "rows", ![j].cache = cache, ![j].todo = todo,
                                 ![j].doc = NoRow, ![j].existing = <<>>,
                                 ![j].used = "", ![j].made = <<>>]
         /\ UNCHANGED locks

\* job_export_entity up to the point where the call has decided to link (after
\* the lexists test of _link_or_copy) or, in the branches that do not link, up
\* to the read of _upsert_map.  When the call raises, the job ends.
job_export_entity_reads(j, ord) ==
    LET pc == jobs[j].pc
        root == jobs[j].entity_name
        cache == IF pc = "entity" THEN <<>>
                 ELSE IF pc = "subtree" THEN build_path_cache(ent, root)
                 ELSE jobs[j].cache
        item == IF pc = "rows" THEN Head(jobs[j].todo) ELSE root
        todo == IF pc = "entity" THEN <<>>
                ELSE IF pc = "subtree" THEN _iter_descendants(ent, root, ord)
                ELSE Tail(jobs[j].todo)
    IN  /\ pc \in {"entity", "subtree", "rows"}
        /\ pc # "subtree" => ord = CHOOSE o \in Orders : TRUE
        /\ IF pc = "subtree" /\ root \notin DOMAIN ent
           THEN JobEnd(j) /\ UNCHANGED fs
           ELSE \E st \in {JobCall(j, cache, item)} :
                  LET links == {k \in 1..Len(st.log) :
                                  st.log[k].ev = "link" /\ st.log[k].x # "exists"}
                      upserts == {k \in 1..Len(st.log) : st.log[k].ev = "upsert"}
                      link == st.log[CHOOSE k \in links : TRUE]
                      doc == _get_map(st.map, item)
                  IN  IF st.raised THEN fs' = st.fs /\ JobEnd(j)
                      ELSE IF links # {}
                      THEN /\ fs' = Restrict(st.fs, DOMAIN st.fs \ {link.p})
                           /\ jobs' = [jobs EXCEPT ![j].pc = "link", ![j].cache = cache,
                                                   ![j].todo = todo, ![j].doc = doc,
                                                   ![j].used = link.x]
                           /\ UNCHANGED locks
                      ELSE IF upserts # {}
                      THEN /\ fs' = st.fs
                           /\ jobs' = [jobs EXCEPT ![j].pc = "save", ![j].cache = cache,
                                                   ![j].todo = todo, ![j].doc = doc,
                                                   ![j].existing = _get_map(map, item).name]
                           /\ UNCHANGED locks
                      ELSE fs' = st.fs /\ Finish(j, cache, todo)
        /\ UNCHANGED <<ent, map, PATH_CACHE, settings, muts>>

\* _link_or_copy after its lexists test, and the read of the _upsert_map that
\* follows it: exported when the link was made, error when os.link,
\* shutil.copy2 or os.symlink raised
job_link_or_copy(j) ==
    LET doc == jobs[j].doc
        r == IF jobs[j].used = "hardlink" THEN os_link(fs, doc.src_path, doc.export_path)
             ELSE IF jobs[j].used = "copy" THEN copy2(fs, doc.src_path, doc.export_path)
             ELSE os_symlink(fs, doc.src_path, doc.export_path)
    IN  /\ jobs[j].pc = "link"
        /\ fs' = r.fs
        /\ jobs' = [jobs EXCEPT
                      ![j].pc = "save",
                      ![j].doc = [doc EXCEPT !.status = IF r.ok THEN "exported" ELSE "error",
                                             !.last_error = IF r.ok THEN "" ELSE "OSError"],
                      ![j].existing = _get_map(map, doc.drive_entity).name,
                      ![j].made = IF r.ok THEN doc.export_path ELSE <<>>]
        /\ UNCHANGED <<ent, map, PATH_CACHE, settings, locks, muts>>

\* doc.save() of _upsert_map: a new row when the read found none, the row it
\* found otherwise
doc_save(m, doc, existing) ==
    IF existing = <<>>
    THEN m \cup {[doc EXCEPT !.name = <<doc.drive_entity,
                                        Cardinality(RowsOf(m, doc.drive_entity))>>]}
    ELSE {r \in m : r.name # existing} \cup {[doc EXCEPT !.name = existing]}

job_upsert_save(j) ==
    /\ jobs[j].pc = "save"
    /\ map' = doc_save(map, jobs[j].doc, jobs[j].existing)
    /\ Finish(j, jobs[j].cache, jobs[j].todo)
    /\ UNCHANGED <<ent, fs, PATH_CACHE, settings, muts>>

InitRace ==
    /\ ent \in {Catalog, Unindexed(Catalog)}
    /\ \E mode \in {"hardlink", "copy"} : settings = Settings(mode, 0, <<>>)
    /\ fs = Disk(SRC_DEV)
    /\ map = {}
    /\ PATH_CACHE = <<>>
    /\ jobs = [j \in JobIds |-> IdleJob]
    /\ locks = [k \in LockKeys |-> NoJob]
    /\ muts = 0

NextRace ==
    \/ \E j \in JobIds, i \in Ids : on_drive_entity_change(j, i)
    \/ \E j \in JobIds : sync_library(j, "lib")
    \/ \E j \in JobIds : run_export_job_start(j)
    \/ \E j \in JobIds : run_export_job_lock(j)
    \/ \E j \in JobIds : sync_library_job_start(j)
    \/ \E j \in JobIds, ord \in Orders : job_export_entity_reads(j, ord)
    \/ \E j \in JobIds : job_link_or_copy(j)
    \/ \E j \in JobIds : job_upsert_save(j)

SpecRace == InitRace /\ [][NextRace]_vars

(***************************** inside diagnose_and_heal_tree ****************)
\* The first call of a job, diagnose_and_heal_tree, with the steps of
\* rebuild_tree_safely apart.  The catalog ent is what is committed; the
\* bounds a job has rebuilt and not yet committed are in its field tree.
\* What the job does after the call is in the specifications above.  The
\* lock is held until the with block is left.
diagnose_and_heal_start(j) ==
    /\ jobs[j].kind \in {"export", "sync"}
    /\ jobs[j].pc = "queued"
    /\ jobs' = [jobs EXCEPT ![j].pc = IF needs_rebuild(ent, jobs[j].root_entity)
                                      THEN "rebuild_lock" ELSE "healed"]
    /\ UNCHANGED <<ent, fs, map, PATH_CACHE, settings, locks, muts>>

\* a variant that enters the block without the lock
rebuild_tree_safely_no_wait(j) ==
    /\ jobs[j].pc = "rebuild_lock"
    /\ locks' = [locks EXCEPT ![RebuildLock] = j]
    /\ jobs' = [jobs EXCEPT ![j].pc = "rebuild"]
    /\ UNCHANGED <<ent, fs, map, PATH_CACHE, settings, muts>>

\* with _redis_lock(lock_key, timeout=600): wait until the lock is free
rebuild_tree_safely_lock(j) ==
    /\ jobs[j].pc = "rebuild_lock"
    /\ locks[RebuildLock] = NoJob
    /\ locks' = [locks EXCEPT ![RebuildLock] = j]
    /\ jobs' = [jobs EXCEPT ![j].pc = "rebuild"]
    /\ UNCHANGED <<ent, fs, map, PATH_CACHE, settings, muts>>

\* rebuild_tree("Drive Entity"): the new bounds of every row, or an exception
rebuild_tree_safely_rebuild(j, ok) ==
    /\ jobs[j].pc = "rebuild"
    /\ jobs' = [jobs EXCEPT
                  ![j].pc = IF ok THEN "commit" ELSE "except",
                  ![j].tree = IF ok THEN [n \in DOMAIN ent |->
                                            <<rebuild_tree(ent)[n].lft, rebuild_tree(ent)[n].rgt>>]
                              ELSE <<>>]
    /\ UNCHANGED <<ent, fs, map, PATH_CACHE, settings, locks, muts>>

\* frappe.db.commit()
rebuild_tree_safely_commit(j) ==
    /\ jobs[j].pc = "commit"
    /\ ent' = [n \in DOMAIN ent |->
                 IF n \in DOMAIN jobs[j].tree
                 THEN [ent[n] EXCEPT !.lft = jobs[j].tree[n][1], !.rgt = jobs[j].tree[n][2]]
                 ELSE ent[n]]
    /\ jobs' = [jobs EXCEPT ![j].pc = "release", ![j].tree = <<>>]
    /\ UNCHANGED <<fs, map, PATH_CACHE, settings, locks, muts>>

\* the with block is left, after the commit or after the except clause
rebuild_tree_safely_release(j) ==
    /\ jobs[j].pc \in {"release", "except"}
    /\ locks' = [k \in DOMAIN locks |-> IF locks[k] = j THEN NoJob ELSE locks[k]]
    /\ jobs' = [jobs EXCEPT ![j].pc = "healed"]
    /\ UNCHANGED <<ent, fs, map, PATH_CACHE, settings, muts>>

\* diagnose_and_heal_tree has returned
diagnose_and_heal_end(j) ==
    /\ jobs[j].pc = "healed"
    /\ JobEnd(j)
    /\ UNCHANGED <<ent, fs, map, PATH_CACHE, settings, muts>>

\* catalogs whose index has drifted: file M was moved from A to R, or file S
\* was made inactive, by writes that left the bounds alone
Moved == [Catalog EXCEPT !["M"].parent_drive_entity = "R"]
Inactive == [Catalog EXCEPT !["S"].is_active = 0]

InitHeal ==
    /\ ent \in {Catalog, Unindexed(Catalog), Moved, Inactive}
    /\ settings = Settings("hardlink", 0, <<>>)
    /\ fs = Disk(SRC_DEV)
    /\ map = {}
    /\ PATH_CACHE = <<>>
    /\ jobs = [j \in JobIds |-> IdleJob]
    /\ locks = [k \in LockKeys |-> NoJob]
    /\ muts = 0

NextHeal ==
    \/ \E j \in JobIds, i \in Ids : on_drive_entity_change(j, i)
    \/ \E j \in JobIds : sync_library(j, "lib")
    \/ \E j \in JobIds : diagnose_and_heal_start(j)
    \/ \E j \in JobIds : rebuild_tree_safely_lock(j)
    \/ \E j \in JobIds, ok \in BOOLEAN : rebuild_tree_safely_rebuild(j, ok)
    \/ \E j \in JobIds : rebuild_tree_safely_commit(j)
    \/ \E j \in JobIds : rebuild_tree_safely_release(j)
    \/ \E j \in JobIds : diagnose_and_heal_end(j)
    \/ \E i \in Ids : HardDelete(i)
    \/ \E i \in Ids, f \in NewFolder : CreateFolder(i, f[1], f[2])

SpecHeal == InitHeal /\ [][NextHeal]_vars

(***************************** passes over other catalogs ******************)
\* Folder A was moved from R into folder B, which holds M and S, by a write
\* that left the bounds alone: the span of R and the count over the parent
\* pointers are both 4.
MovedFolder ==
    ("R" :> Folder("R", <<"Root">>, NoId, 1, 10)) @@
    ("A" :> Folder("A", <<"A">>, "B", 2, 3)) @@
    ("B" :> Folder("B", <<"B">>, "R", 4, 9)) @@
    ("M" :> File("M", <<"M", ".", "mkv">>, "B", SRC_M, <<>>, 5, 6)) @@
    ("S" :> File("S", <<"S", ".", "srt">>, "B", SRC_S, <<"SRT">>, 7, 8))

\* sibling folders A, holding M, and B, holding S
Siblings ==
    ("R" :> Folder("R", <<"Root">>, NoId, 1, 10)) @@
    ("A" :> Folder("A", <<"A">>, "R", 2, 5)) @@
    ("B" :> Folder("B", <<"B">>, "R", 6, 9)) @@
    ("M" :> File("M", <<"M", ".", "mkv">>, "A", SRC_M, <<>>, 3, 4)) @@
    ("S" :> File("S", <<"S", ".", "srt">>, "B", SRC_S, <<"SRT">>, 7, 8))

\* two siblings of one kind take each other's title
SwapTitles(a, b) ==
    /\ a \in DOMAIN ent /\ b \in DOMAIN ent /\ a # b
    /\ ent[a].parent_drive_entity = ent[b].parent_drive_entity
    /\ ent[a].is_group = ent[b].is_group
    /\ ent[a].title # ent[b].title
    /\ Mutate([ent EXCEPT ![a].title = ent[b].title, ![b].title = ent[a].title], fs)

InitDrift ==
    /\ ent \in {Catalog, Unindexed(Catalog), MovedFolder, Unindexed(MovedFolder),
                Siblings, Unindexed(Siblings)}
    /\ settings = Settings("hardlink", 0, <<>>)
    /\ fs = Disk(SRC_DEV)
    /\ map = {}
    /\ PATH_CACHE = <<>>
    /\ jobs = <<>>
    /\ locks = <<>>
    /\ muts = 0

NextDrift ==
    \/ \E i \in Ids : ExportEntity(i)
    \/ \E i \in Ids, ord \in Orders : ExportSubtree(i, ord)
    \/ \E i \in Ids : \E t \in NewTitle(i) : Rename(i, t)
    \/ \E i \in Ids : Trash(i)
    \/ \E a, b \in Ids : SwapTitles(a, b)

SpecDrift == InitDrift /\ [][NextDrift]_vars

(***************************** claims: common ******************************)
\* What the calls of this library return from the current state: the state
\* [fs, map, log, raised] in which ExportEntity, ExportSubtree and
\* CleanupInvalidExports leave the filesystem and the ledger.
EntityFrom(f, m, i) ==
    export_entity(St(f, m), ent, PATH_CACHE, i, TheLib.library_name,
                  TheLib.root_drive_entity, settings.export_root, ExportSubdir(TheLib),
                  LinkMode(settings), IncludeImages(settings),
                  parse_allowed_exts(TheLib.allowed_extensions))

AfterEntity(i) == EntityFrom(fs, map, i)

AfterSubtree(r, ord) ==
    export_subtree(St(fs, map), ent, r, TheLib.library_name, TheLib.root_drive_entity,
                   settings.export_root, ExportSubdir(TheLib), LinkMode(settings),
                   IncludeImages(settings), parse_allowed_exts(TheLib.allowed_extensions),
                   ord)

AfterSweep(l, ord) == cleanup_invalid_exports(St(fs, map), ent, l, ord)

\* expected places, written out
BASE == <<SEP, "x", SEP, "lib">>
P_A == BASE \o <<SEP, "A">>
P_A2 == BASE \o <<SEP, "A2">>
P_A_M == P_A \o <<SEP, "M", ".", "mkv">>
P_A_S == P_A \o <<SEP, "S", ".", "srt">>
P_A2_M == P_A2 \o <<SEP, "M", ".", "mkv">>
P_A2_S == P_A2 \o <<SEP, "S", ".", "srt">>

HardlinkSameDevice ==
    LinkMode(settings) = "hardlink" /\ fs[settings.export_root].dev = SRC_DEV

RowOf(m, i) == _get_map(m, i)
Exported(m) == {r \in m : r.status = "exported"}
IsFile(E, i) == i \in DOMAIN E /\ E[i].is_group = 0

(***************************** C8 ******************************************)
\* what a first reconcileSubtree(R) of the scenario must leave, with n
\* exported rows
C8_Result(f, m, n) ==
    /\ exists(f, P_A_M)
    /\ exists(f, P_A_S)
    /\ stat(f, P_A_M).data = SRC_M
    /\ stat(f, P_A_S).data = SRC_S
    /\ HardlinkSameDevice => _same_inode(f, SRC_M, P_A_M)
    /\ Cardinality(Exported(m)) = n
    /\ Cardinality(m) = n

\* C8 as stated: with R > A > {M.mkv, S.srt} and an empty ledger, the first
\* reconcileSubtree(R) produces A/M.mkv (hardlinked to its source on the same
\* device) and A/S.srt, and the ledger then holds exactly 3 exported rows.
C8_ThreeRows ==
    (muts = 0 /\ map = {}) =>
        \A ord \in Orders :
            C8_Result(AfterSubtree("R", ord).fs, AfterSubtree("R", ord).map, 3)

\* C8 amended: the ledger then holds exactly 4 exported rows, those of R
\* (recorded at the export base), A, M and S.
C8_FourRows ==
    (muts = 0 /\ map = {}) =>
        \A ord \in Orders :
            LET st == AfterSubtree("R", ord)
            IN  /\ C8_Result(st.fs, st.map, 4)
                /\ {r.drive_entity : r \in st.map} = {"R", "A", "M", "S"}
                /\ RowOf(st.map, "R").export_path = BASE
                /\ RowOf(st.map, "A").export_path = P_A
                /\ RowOf(st.map, "M").export_path = P_A_M
                /\ RowOf(st.map, "S").export_path = P_A_S

C8_Witness ==
    /\ muts = 0
    /\ C8_Result(fs, map, 4)
    /\ RowOf(map, "R").export_type = "folder"

(***************************** C9 ******************************************)
\* the catalog of the scenario after the rename of A to A2
Renamed(E) == [E EXCEPT !["A"].title = <<"A2">>]

\* descendant d has an export under A/
WasUnderA(f, m, d) ==
    /\ RowOf(m, d).status = "exported"
    /\ Under(P_A, RowOf(m, d).export_path)
    /\ exists(f, RowOf(m, d).export_path)

C9_Pre ==
    /\ muts = 1
    /\ ent \in {Renamed(Catalog), Renamed(Unindexed(Catalog))}
    /\ RowOf(map, "A").status = "exported"
    /\ RowOf(map, "A").export_path = P_A
    /\ isdir(fs, P_A)
    /\ \E d \in {"M", "S"} : WasUnderA(fs, map, d)

C9_Post(f0, m0, f, m, E) ==
    /\ ~lexists(f, P_A)
    /\ isdir(f, P_A2)
    /\ RowOf(m, "A").status = "exported"
    /\ RowOf(m, "A").export_path = P_A2
    /\ \A d \in {"M", "S"} :
          /\ WasUnderA(f0, m0, d) =>
                /\ RowOf(m, d).status = "exported"
                /\ Under(P_A2, RowOf(m, d).export_path)
                /\ stat(f, RowOf(m, d).export_path).data = E[d].path
          /\ ~(RowOf(m, d).status = "exported" /\ Under(P_A, RowOf(m, d).export_path))

\* C9: after the exported folder A, with exported descendant files, is
\* renamed to A2 and reconcileSubtree is run again (on the library root or on
\* the folder), the directory A/ is gone, every descendant that was exported
\* under A/ is exported under A2/ with its ledger path there, and no exported
\* descendant row points under A/.
C9_RenamedFolder ==
    C9_Pre =>
        \A r \in {"R", "A"}, ord \in Orders :
            C9_Post(fs, map, AfterSubtree(r, ord).fs, AfterSubtree(r, ord).map, ent)

C9_Witness ==
    /\ muts = 1
    /\ ent \in {Renamed(Catalog), Renamed(Unindexed(Catalog))}
    /\ C9_Post(fs, map, fs, map, ent)
    /\ RowOf(map, "M").export_path = P_A2_M
    /\ RowOf(map, "S").export_path = P_A2_S
    /\ _same_inode(fs, SRC_M, P_A2_M)

(***************************** C10 *****************************************)
\* file i is exported and its parent folder is in the trash
ParentTrashed(E, f, m, i) ==
    /\ IsFile(E, i)
    /\ ~IsGone(E, i)
    /\ E[i].parent_drive_entity \in DOMAIN E
    /\ E[E[i].parent_drive_entity].trashed_on # 0
    /\ RowOf(m, i).status = "exported"
    /\ RowOf(m, i).library_name = "lib"
    /\ exists(f, RowOf(m, i).export_path)

\* every row of library l whose own item is missing, inactive or trashed is
\* marked deleted and nothing is at its recorded path
Swept(l, f, m, E) ==
    \A r \in m :
        (r.library_name = l /\ IsGone(E, r.drive_entity)) =>
            (r.status = "deleted" /\ ~lexists(f, r.export_path))

\* C10 as stated: after the parent folder of an exported file M is trashed,
\* cleanup_invalid_exports of the library leaves no export of M and M's row
\* marked deleted; and every row of the library whose item is missing,
\* inactive or trashed is deleted with nothing at its recorded path.
C10_ParentTrashed ==
    \A ord \in Orders :
        LET st == AfterSweep("lib", ord)
        IN  /\ Swept("lib", st.fs, st.map, ent)
            /\ \A i \in Ids :
                  ParentTrashed(ent, fs, map, i) =>
                      /\ ~lexists(st.fs, RowOf(map, i).export_path)
                      /\ RowOf(st.map, i).status = "deleted"

\* the trashed parent of i has a row of the library that records a directory
\* holding i's export
ParentRecorded(E, m, i) ==
    LET p == RowOf(m, E[i].parent_drive_entity)
    IN  /\ p # NoRow
        /\ p.library_name = "lib"
        /\ p.export_path # <<>>
        /\ Under(p.export_path, RowOf(m, i).export_path)

\* the parent of i has interval bounds, and they enclose those of i
ParentEncloses(E, i) ==
    LET p == E[E[i].parent_drive_entity]
    IN  p.lft # 0 /\ p.rgt # 0 /\ E[i].lft > p.lft /\ E[i].rgt < p.rgt

\* C10 amended: the sweep removes M's export when the trashed parent has a row
\* of the library recording a directory that holds it, and marks M's row
\* deleted when moreover the parent's interval bounds are set and enclose
\* M's; the general statement about the rows of missing, inactive or trashed
\* items stands.
C10_ParentRecorded ==
    \A ord \in Orders :
        LET st == AfterSweep("lib", ord)
        IN  /\ Swept("lib", st.fs, st.map, ent)
            /\ \A i \in Ids :
                  (ParentTrashed(ent, fs, map, i) /\ ParentRecorded(ent, map, i)) =>
                      /\ ~lexists(st.fs, RowOf(map, i).export_path)
                      /\ ParentEncloses(ent, i) => RowOf(st.map, i).status = "deleted"

C10_Witness ==
    /\ ent["A"].trashed_on # 0
    /\ ~IsGone(ent, "M")
    /\ RowOf(map, "A").status = "deleted"
    /\ RowOf(map, "M").status = "deleted"
    /\ RowOf(map, "M").export_path = P_A_M
    /\ ~lexists(fs, P_A_M)
    /\ ~lexists(fs, P_A)

(***************************** C7 ******************************************)
\* the ancestors of i up to the library root stop (n bounds the walk)
RECURSIVE AncestorsOf(_, _, _, _)
AncestorsOf(E, i, stop, n) ==
    IF n = 0 \/ i = stop \/ i \notin DOMAIN E THEN {}
    ELSE LET p == E[i].parent_drive_entity
         IN  IF p = NoId THEN {} ELSE {p} \cup AncestorsOf(E, p, stop, n - 1)

HasInvalidAncestor(E, i) ==
    \E a \in AncestorsOf(E, i, TheLib.root_drive_entity, Cardinality(Ids)) : IsGone(E, a)

\* whether the library's filter lets the file's extension pass
PassesFilter(E, i) ==
    LET ext == split_ext(E[i].title, E[i].file_ext)
        allowed == parse_allowed_exts(TheLib.allowed_extensions)
    IN  \/ ext \in (IF allowed = {} THEN DEFAULT_VIDEO_EXTS ELSE allowed)
        \/ ext \in DEFAULT_SUB_EXTS
        \/ IncludeImages(settings) /\ ext \in DEFAULT_IMG_EXTS

\* the items one reconcileSubtree of r passes through
Visited(E, r, ord) ==
    {r} \cup {_iter_descendants(E, r, ord)[k] : k \in 1..Len(_iter_descendants(E, r, ord))}

\* the call made export_entity(i)
Called(log, i) == \E k \in 1..Len(log) : log[k].ev = "call" /\ log[k].who = i

\* the states in which a reconciliation that processes item i leaves the
\* program: reconcileOne of i, and every reconcileSubtree that visits i and
\* gets as far as i
AfterProcessing(i) ==
    (IF IsFile(ent, i) THEN {AfterEntity(i)} ELSE {})
    \cup {st \in {AfterSubtree(x[1], x[2]) :
                    x \in {y \in Ids \X Orders :
                             IsGroup(ent, y[1]) /\ i \in Visited(ent, y[1], y[2])}} :
            Called(st.log, i)}

\* i is active, was exported, and an ancestor is now inactive or trashed
C7_Exported(i) ==
    /\ i \in DOMAIN ent
    /\ ~IsGone(ent, i)
    /\ RowOf(map, i).status = "exported"
    /\ RowOf(map, i).export_path # <<>>
    /\ HasInvalidAncestor(ent, i)

\* the recorded export path is gone and the row says skipped, "Invalid Ancestor"
C7_Cleaned(i, st) ==
    /\ ~lexists(st.fs, RowOf(map, i).export_path)
    /\ RowOf(st.map, i).status = "skipped"
    /\ RowOf(st.map, i).last_error = "Invalid Ancestor"
    /\ RowOf(st.map, i).export_path = <<>>

\* C7 as stated: if an active item (file or folder) was exported and one of its
\* ancestors is now inactive or trashed, the next reconciliation that processes
\* the item removes the recorded export path and sets the row to skipped,
\* "Invalid Ancestor".
C7_AnyItem ==
    \A i \in Ids :
        C7_Exported(i) => \A st \in AfterProcessing(i) : C7_Cleaned(i, st)

\* a file's source is still on the disk and its extension still passes the filter
C7_Pre(i) ==
    /\ C7_Exported(i)
    /\ IsFile(ent, i) => (exists(fs, ent[i].path) /\ PassesFilter(ent, i))

\* C7, amended: if an active item was exported and one of its ancestors is now
\* inactive or trashed, then, for a folder always and for a file whose source
\* still exists and whose extension still passes the filter, the next
\* reconciliation that processes the item removes the recorded export path and
\* sets the row to skipped, "Invalid Ancestor".
C7_InvalidAncestor ==
    \A i \in Ids :
        C7_Pre(i) => \A st \in AfterProcessing(i) : C7_Cleaned(i, st)

C7_Witness ==
    /\ ent["A"].trashed_on # 0
    /\ ~IsGone(ent, "M")
    /\ RowOf(map, "M").status = "skipped"
    /\ RowOf(map, "M").last_error = "Invalid Ancestor"
    /\ ~lexists(fs, P_A_M)
    /\ isdir(fs, P_A)

(***************************** C1 ******************************************)
\* the log entries of a call that touch the export tree
Touches(log) ==
    {k \in 1..Len(log) : \/ log[k].ev = "link" /\ log[k].x # "exists"
                         \/ log[k].ev = "rm" /\ log[k].x = "hit"}

\* C1: a second reconcileOne of the same file, straight after the first with
\* nothing else changed, attempts no link or copy, creates and removes no
\* file, and leaves the filesystem and the item's ledger row as the first left
\* them; in every link mode, across devices, and at a collision-suffixed path.
C1_Idempotent ==
    \A i \in Ids :
        IsFile(ent, i) =>
            LET first == AfterEntity(i)
                second == EntityFrom(first.fs, first.map, i)
            IN  /\ second.fs = first.fs
                /\ RowOf(second.map, i) = RowOf(first.map, i)
                /\ Touches(second.log) = {}

(***************************** C4 ******************************************)
\* the path the item is wanted at: the sanitized titles from the library
\* root down, under the export base
RECURSIVE WantedPath(_, _, _)
WantedPath(E, i, n) ==
    IF i = TheLib.root_drive_entity \/ n = 0 THEN BASE
    ELSE WantedPath(E, E[i].parent_drive_entity, n - 1) \o <<SEP>> \o safe_name(E[i].title)

\* the item is one a reconciliation exports
Exportable(E, f, i) ==
    /\ i \in DOMAIN E
    /\ ~IsGone(E, i)
    /\ ~HasInvalidAncestor(E, i)
    /\ IsFile(E, i) => (exists(f, E[i].path) /\ PassesFilter(E, i))

\* distinct items the pass of r visits that are wanted at the same path
Colliding(r, ord) ==
    {x \in Visited(ent, r, ord) \X Visited(ent, r, ord) :
        /\ x[1] # x[2]
        /\ Exportable(ent, fs, x[1])
        /\ Exportable(ent, fs, x[2])
        /\ WantedPath(ent, x[1], Cardinality(Ids)) = WantedPath(ent, x[2], Cardinality(Ids))}

\* both are exported, at two different existing paths, one of them the wanted
\* path with the identifier of its item
Apart(f, m, i, j, want) ==
    /\ RowOf(m, i).status = "exported"
    /\ RowOf(m, j).status = "exported"
    /\ RowOf(m, i).export_path # RowOf(m, j).export_path
    /\ exists(f, RowOf(m, i).export_path)
    /\ exists(f, RowOf(m, j).export_path)
    /\ \/ RowOf(m, i).export_path = SuffixedDst(want, i)
       \/ RowOf(m, j).export_path = SuffixedDst(want, j)

\* C4: when two distinct items are wanted at the same path and both are
\* reconciled (in either order, again and again), both end up exported at two
\* different paths, one of them the wanted path with the item's identifier
\* before the extension.
C4_CollisionSafety ==
    \A r \in Ids, ord \in Orders :
        IsGroup(ent, r) =>
            \A x \in Colliding(r, ord) :
                Apart(AfterSubtree(r, ord).fs, AfterSubtree(r, ord).map, x[1], x[2],
                      WantedPath(ent, x[1], Cardinality(Ids)))

(***************************** C3 ******************************************)
Want(i) == WantedPath(ent, i, Cardinality(Ids))

\* the path holds the content of item i's source
FromSource(f, p, i) == exists(f, p) /\ stat(f, p).data = stat(f, ent[i].path).data

\* file i is exported at a path P that is on disk, and is now wanted elsewhere
C3_Pre(i) ==
    /\ IsFile(ent, i)
    /\ Exportable(ent, fs, i)
    /\ RowOf(map, i).status = "exported"
    /\ exists(fs, RowOf(map, i).export_path)
    /\ RowOf(map, i).export_path # Want(i)

\* in the log, every link made at path x comes after a removal of path p
RemovedBeforeLinked(log, p, x) ==
    \A k2 \in 1..Len(log) :
        (log[k2].ev = "link" /\ log[k2].p = x /\ log[k2].x # "exists") =>
            \E k1 \in 1..(k2 - 1) : log[k1].ev = "rm" /\ log[k1].p = p /\ log[k1].x = "hit"

\* C3 as stated: for a file exported at P, on disk, whose wanted path has
\* become P' # P, after the next reconcileOne P is gone, P' exists and holds
\* the content of the item's source, the ledger's export path is P', and P
\* was removed before P' was created.
C3_RenameStability ==
    \A i \in Ids :
        C3_Pre(i) =>
            LET st == AfterEntity(i)
                P == RowOf(map, i).export_path
            IN  /\ ~lexists(st.fs, P)
                /\ FromSource(st.fs, Want(i), i)
                /\ RowOf(st.map, i).status = "exported"
                /\ RowOf(st.map, i).export_path = Want(i)
                /\ RemovedBeforeLinked(st.log, P, Want(i))

\* where the file ends up: at the wanted path when nothing is there, or when
\* in hardlink mode the wanted path already is the source's inode; and at the
\* wanted path with the item's identifier when something else is there
Landing(i) ==
    IF \/ ~exists(fs, Want(i))
       \/ LinkMode(settings) = "hardlink" /\ _same_inode(fs, ent[i].path, Want(i))
    THEN Want(i) ELSE SuffixedDst(Want(i), i)

\* C3 amended: after the next reconcileOne the ledger's export path is the
\* landing path X (P' when free, P' with the identifier otherwise), X holds
\* the content of the item's source unless a dangling symbolic link was at
\* P', P no longer exists unless X = P, and P was removed before anything
\* was linked.
C3_RenameLanding ==
    \A i \in Ids :
        C3_Pre(i) =>
            LET st == AfterEntity(i)
                P == RowOf(map, i).export_path
                X == Landing(i)
            IN  /\ RowOf(st.map, i).status = "exported"
                /\ RowOf(st.map, i).export_path = X
                /\ lexists(fs, Want(i)) \/ FromSource(st.fs, X, i)
                /\ exists(fs, Want(i)) => FromSource(st.fs, X, i)
                /\ X # P => ~lexists(st.fs, P)
                /\ RemovedBeforeLinked(st.log, P, X)
                /\ \E k \in 1..Len(st.log) :
                      st.log[k].ev = "rm" /\ st.log[k].p = P /\ st.log[k].x = "hit"

C3_Witness ==
    /\ muts = 1
    /\ "M" \in DOMAIN ent
    /\ ent["M"].title = <<"S", ".", "srt">>
    /\ RowOf(map, "M").status = "exported"
    /\ RowOf(map, "M").export_path = SuffixedDst(P_A_S, "M")
    /\ RowOf(map, "S").export_path = P_A_S
    /\ FromSource(fs, P_A_S, "S")
    /\ FromSource(fs, SuffixedDst(P_A_S, "M"), "M")
    /\ ~lexists(fs, P_A_M)

(***************************** C5 ******************************************)
\* the states any one reconcileOne or reconcileSubtree leaves the program in
AfterAnyCall ==
    {AfterEntity(i) : i \in {j \in Ids : IsFile(ent, j)}}
    \cup {AfterSubtree(x[1], x[2]) : x \in {y \in Ids \X Orders : IsGroup(ent, y[1])}}

\* the row records an export that is on disk and is the inode of its source
SameInodeRow(f, r) ==
    exists(f, r.export_path) /\ _same_inode(f, r.src_path, r.export_path)

StoredExt(x) ==
    LET l == lower(Strip(x)) IN IF Head(l) = "." THEN l ELSE <<".">> \o l

\* the extension the title ends in, lower-cased (<<>> when it has none)
TitleExt(t) ==
    IF Len(t) >= 3 /\ t[Len(t) - 1] = "." THEN lower(SubSeq(t, Len(t) - 1, Len(t))) ELSE <<>>

\* the effective extension prefers the stored one
EffectiveExt(e) == IF e.file_ext # <<>> THEN StoredExt(e.file_ext) ELSE TitleExt(e.title)

\* the extensions the library lets pass
AllowedSet ==
    LET given == parse_allowed_exts(TheLib.allowed_extensions)
    IN  (IF given # {} THEN given ELSE DEFAULT_VIDEO_EXTS)
        \cup DEFAULT_SUB_EXTS
        \cup (IF settings.include_images = 1 THEN DEFAULT_IMG_EXTS ELSE {})

\* the files and links of the tree
Files(f) == {q \in DOMAIN f : f[q].kind # "dir"}

\* C6: for an active file with an existing source whose effective extension
\* (the stored one when there is one, else the title's) is in none of the
\* allowed video set (the library's list when given, else the built-in one),
\* the subtitle set and, when images are included, the image set,
\* reconcileOne creates no export and leaves the row skipped; a file whose
\* extension is in one of them is exported.
C6_Filter ==
    \A i \in Ids :
        (IsFile(ent, i) /\ ~IsGone(ent, i) /\ exists(fs, ent[i].path)) =>
            LET st == AfterEntity(i)
            IN  IF EffectiveExt(ent[i]) \notin AllowedSet
                THEN /\ Files(st.fs) = Files(fs)
                     /\ \A q \in Files(fs) : st.fs[q] = fs[q]
                     /\ RowOf(st.map, i).status = "skipped"
                     /\ RowOf(st.map, i).export_path = <<>>
                ELSE /\ RowOf(st.map, i).status = "exported"
                     /\ exists(st.fs, RowOf(st.map, i).export_path)

C6_Witness ==
    /\ ent["M"].title = <<"M", ".", "mkv">>
    /\ ent["M"].file_ext = <<"TXT">>
    /\ TheLib.allowed_extensions = <<>>
    /\ RowOf(map, "M").status = "skipped"
    /\ RowOf(map, "M").last_error = ""
    /\ RowOf(map, "S").status = "exported"
    /\ Files(fs) = {SRC_M, SRC_S, P_A_S}

(***************************** C2 ******************************************)
\* job j is inside export_entity or export_subtree for its library
Reconciling(j) ==
    /\ jobs[j].kind \in {"export", "sync"}
    /\ jobs[j].pc \in {"entity", "subtree", "rows", "link", "save"}

\* C2: every run of reconcileOne or reconcileSubtree for a library, started
\* by run_export_job or by _sync_library_job, holds the library's lock all
\* the while, so no two reconciliations of one library run at the same time.
C2_LibraryMutex ==
    /\ \A j \in JobIds :
          Reconciling(j) => locks[LibraryLock(jobs[j].library_name)] = j
    /\ \A j1, j2 \in JobIds :
          (j1 # j2 /\ Reconciling(j1) /\ Reconciling(j2)) =>
              jobs[j1].library_name # jobs[j2].library_name

(***************************** C11 *****************************************)
\* C11: during reconcileSubtree no failure of one item is raised out of
\* reconcileOne, and reconcileOne is called for every item of the pass.
C11_PassNeverAborts ==
    \A r \in Ids, ord \in Orders :
        IsGroup(ent, r) =>
            LET st == AfterSubtree(r, ord)
            IN  /\ ~st.raised
                /\ \A i \in Visited(ent, r, ord) : Called(st.log, i)

(***************************** C12 *****************************************)
\* C12: in every state of every interleaving of export, resync and delete
\* jobs the ledger holds at most one entry per source item, and no two
\* reconcilers have both created the same destination.
C12_OneEntryPerItem ==
    /\ \A i \in Ids : Cardinality(RowsOf(map, i)) <= 1
    /\ \A j1, j2 \in JobIds :
          (j1 # j2 /\ jobs[j1].made # <<>>) => jobs[j1].made # jobs[j2].made

(***************************** claim C13 ***********************************)
\* what exists strictly under the export base: the engine made all of it
UnderBase == {p \in DOMAIN fs : p # BASE /\ Under(BASE, p)}
RecordedAt(p) == {r \in map : r.export_path = p}

\* C13: after any sequence of export_entity, export_subtree, remove_export and
\* cleanup_invalid_exports calls with changes of the sources in between, every
\* file or directory under the export base that still exists is the
\* export_path of exactly one ledger row: no orphan, and nothing that two rows
\* record.
C13_NoOrphans == \A p \in UnderBase : Cardinality(RecordedAt(p)) = 1

(***************************** claim C14 ***********************************)
\* The chain of parents from cur as the catalog has it: the nodes up to and
\* including stop_at, or up to the node without a parent, and whether the
\* chain came back to a node it had passed.
RECURSIVE ChainFrom(_, _, _)
ChainFrom(cur, stop_at, nodes) ==
    IF cur = NoId THEN [nodes |-> nodes, cycle |-> FALSE]
    ELSE IF \E k \in 1..Len(nodes) : nodes[k] = cur THEN [nodes |-> nodes, cycle |-> TRUE]
    ELSE IF cur = stop_at THEN [nodes |-> Append(nodes, cur), cycle |-> FALSE]
    ELSE ChainFrom(ent[cur].parent_drive_entity, stop_at, Append(nodes, cur))

Reverse(s) == [k \in 1..Len(s) |-> s[Len(s) + 1 - k]]
RECURSIVE TitlesOf(_, _)
TitlesOf(nodes, stop_at) ==
    IF nodes = <<>> THEN <<>>
    ELSE IF Head(nodes) = stop_at THEN TitlesOf(Tail(nodes), stop_at)
    ELSE <<safe_name(ent[Head(nodes)].title)>> \o TitlesOf(Tail(nodes), stop_at)

ChainInvalid(c) ==
    \E k \in 1..Len(c.nodes) :
        ent[c.nodes[k]].is_active # 1 \/ ent[c.nodes[k]].trashed_on # 0

\* C14: _build_rel_parts returns None whenever a node of the chain, up to and
\* including the stop node, is inactive or in the trash, and whenever the chain
\* comes back to a node it has visited before it reaches the stop node; it
\* returns for every graph; otherwise it returns the sanitized titles from the
\* top down to the entity, without a segment for the stop node.
C14_BuildRelativePath ==
    \A i \in DOMAIN ent, stop_at \in DOMAIN ent :
        LET c == ChainFrom(i, stop_at, <<>>)
            r == _build_rel_parts(ent, PATH_CACHE, i, stop_at)
        IN  IF ChainInvalid(c) \/ c.cycle THEN r.tag = "none"
            ELSE r.tag = "ok" /\ r.parts = Reverse(TitlesOf(c.nodes, stop_at))

(***************************** claim C15 ***********************************)
AfterRemove(i) == remove_export(St(fs, map), ent, i)

\* every row of the ledger is still there, under its name
Kept(m) == \A r \in map : \E q \in m : q.name = r.name

\* C15: remove_export, with its bulk update of the descendants, changes
\* nothing of a ledger row but the status, which becomes deleted (and the
\* timestamp, which the rows of the model do not carry): export_path,
\* src_path, library_name and export_type stay.  It changes nothing at all
\* for an entity without a row, and it does not fail when the recorded path
\* is gone already.  No call of the engine removes a row from the ledger.
C15_Tombstones ==
    /\ \A i \in Ids :
          LET st == AfterRemove(i)
          IN  /\ ~st.raised
              /\ Cardinality(st.map) = Cardinality(map)
              /\ \A r \in map : r \in st.map \/ [r EXCEPT !.status = "deleted"] \in st.map
              /\ IF RowsOf(map, i) = {} THEN st.fs = fs /\ st.map = map
                 ELSE RowOf(st.map, i).status = "deleted"
    /\ \A i \in Ids : Kept(AfterEntity(i).map)
    /\ \A r \in Ids, ord \in Orders : IsGroup(ent, r) => Kept(AfterSubtree(r, ord).map)
    /\ \A l \in {"lib", "other"}, ord \in Orders : Kept(AfterSweep(l, ord).map)

\* remove_export has left a tombstone: a deleted row that keeps the path it
\* recorded, with nothing at that path any more
C15_Witness ==
    \E r \in map : /\ r.status = "deleted"
                    /\ r.export_path # <<>>
                    /\ ~lexists(fs, r.export_path)
                    /\ RowOf(AfterRemove(r.drive_entity).map, r.drive_entity) = r

(***************************** claim C16 ***********************************)
\* a folder of the catalog whose interval bounds are known
Indexed(i) == IsGroup(ent, i) /\ ent[i].lft # 0 /\ ent[i].rgt # 0
DescendantsOf(i) == {d \in DOMAIN ent : i \in AncestorsOf(ent, d, NoId, Cardinality(Ids))}

\* remove_export(i) has left nothing at or below the path the ledger records
\* for i, and no exported row of a descendant of i
C16_Swept(i, st) ==
    /\ \A r \in RowsOf(map, i) :
          r.export_path # <<>> => \A p \in DOMAIN st.fs : ~Under(r.export_path, p)
    /\ \A d \in DescendantsOf(i) : \A r \in RowsOf(st.map, d) : r.status # "exported"

InterruptedFs(st) ==
    {st.fs} \cup {Restrict(st.fs, DOMAIN st.fs \ {st.log[k].p}) :
                   k \in {n \in 1..Len(st.log) :
                            st.log[n].ev = "link" /\ st.log[n].x # "exists"}}

\* C17: when export_entity is interrupted between two of its steps on the disk
\* and the ledger, the same call made again, with no change of the sources,
\* leaves the disk and the ledger as the call that was not interrupted leaves
\* them, in every link mode: no export file without a row, no second export.
C17_CrashConsistent ==
    \A i \in Ids :
        LET full == AfterEntity(i)
        IN  ~full.raised =>
               \A f \in InterruptedFs(full) :
                   LET again == EntityFrom(f, map, i)
                   IN  again.fs = full.fs /\ again.map = full.map

(***************************** claim C18 ***********************************)
Rebuilding(j) == jobs[j].pc \in {"rebuild", "commit"}
InBlock(j) == jobs[j].pc \in {"rebuild", "commit", "release", "except"}

C18_FailedWitness ==
    \E j1, j2 \in JobIds : /\ jobs[j1].pc = "healed" /\ needs_rebuild(ent, jobs[j1].root_entity)
                            /\ jobs[j2].pc = "rebuild"

(***************************** claim C19 ***********************************)
BoundsAbsent(root) == ent[root].lft = 0 \/ ent[root].rgt = 0
SpanCount(root) == (ent[root].rgt - ent[root].lft - 1) \div 2

\* the rows the walk from root over the active rows reaches: active rows
\* whose chain of parents leads to root through active rows
ActiveBelow(root) ==
    {d \in DOMAIN ent :
        LET up == AncestorsOf(ent, d, root, Cardinality(Ids))
        IN  /\ d # root /\ root \in up /\ ent[d].is_active = 1
            /\ \A a \in up \ {root} : ent[a].is_active = 1}
CountDiffers(root) == SpanCount(root) # Cardinality(ActiveBelow(root))

\* the index says something else than the parent pointers, at root or below
Below(root) == {d \in DOMAIN ent : root \in AncestorsOf(ent, d, NoId, Cardinality(Ids))}
Encloses(n, d) == ent[n].lft < ent[d].lft /\ ent[d].rgt < ent[n].rgt
Drifted(root) ==
    \E n, d \in Below(root) \cup {root} :
        (n \in AncestorsOf(ent, d, NoId, Cardinality(Ids))) # Encloses(n, d)

FirstCall(log, i) ==
    CHOOSE k \in 1..Len(log) :
        /\ log[k].ev = "call" /\ log[k].who = i
        /\ \A n \in 1..(k - 1) : ~(log[n].ev = "call" /\ log[n].who = i)

\* every folder the pass reconciles is reconciled before each of its
\* descendants the pass reconciles
FoldersFirst(r, log) ==
    \A d \in Ids : Called(log, d) =>
        \A a \in AncestorsOf(ent, d, r, Cardinality(Ids)) :
            Called(log, a) => FirstCall(log, a) < FirstCall(log, d)

\* when a file is linked, its folder has been recorded as exported: its
\* directory is there and its old directory is gone
FolderBeforeLink(r, log) ==
    \A k \in 1..Len(log) :
        (log[k].ev = "link" /\ log[k].x # "exists") =>
            LET p == ent[log[k].who].parent_drive_entity
            IN  p \in AncestorsOf(ent, log[k].who, r, Cardinality(Ids)) =>
                   \E n \in 1..(k - 1) : /\ log[n].ev = "upsert" /\ log[n].who = p
                                          /\ log[n].x = "exported"

\* C20: within one export_subtree pass, with the rows taken by lft from the
\* index or breadth first over the parent pointers, every folder is
\* reconciled before any of its descendants, so that its directory exists,
\* and its old directory is removed, before a child is linked into it.
C20_ParentsFirst ==
    \A r \in Ids, ord \in Orders : IsGroup(ent, r) =>
        LET log == AfterSubtree(r, ord).log
        IN  FoldersFirst(r, log) /\ FolderBeforeLink(r, log)

(***************************** claim C21 ***********************************)
\* job j has taken the step
Stepped(j) == jobs'[j].pc # jobs[j].pc \/ jobs'[j].todo # jobs[j].todo

\* the rows build_path_cache(root) of job j's pass can have primed
OwnRows(j) ==
    {jobs[j].entity_name} \cup
    {n \in DOMAIN ent : jobs[j].entity_name \in AncestorsOf(ent, n, NoId, Cardinality(Ids))}

\* export_entity of job j's entity with every lookup answered by the catalog
OwnLookup(j) ==
    export_entity(St(fs, map), ent, <<>>, jobs[j].entity_name, jobs[j].library_name,
                  jobs[j].root_entity, settings.export_root, jobs[j].export_subdir,
                  LinkMode(settings), IncludeImages(settings), jobs[j].allowed_exts)

LostBy(st) ==
    {row \in st.map : /\ row.status = "exported"
                      /\ ~lexists(st.fs, row.export_path)
                      /\ (row \in map => lexists(fs, row.export_path))}

\* C22: the cleanup of a renamed or moved item in export_entity never removes
\* the path another item is recorded at as exported, nor a directory that
\* holds one: after an export_subtree pass that ran to its end every row with
\* status exported has its export_path on disk, also after two siblings have
\* taken each other's place.
C22_CleanupSparesOthers ==
    \A r \in Ids, ord \in Orders : IsGroup(ent, r) =>
        LET st == AfterSubtree(r, ord)
        IN  ~st.raised => LostBy(st) = {}

(***************************** claim C23 ***********************************)
\* the item the next engine call of job j is for
ItemOf(j) ==
    IF jobs[j].pc = "rows" THEN Head(jobs[j].todo) ELSE jobs[j].entity_name
InExport(j) == jobs[j].pc \in {"entity", "subtree", "rows"}
InDelete(j) == jobs[j].kind = "delete" /\ jobs[j].pc = "remove"

\* item i is in the trash and nothing of it is exported
TrashedAndGone(i) ==
    \A row \in RowsOf(map, i) :
        /\ row.status # "exported"
        /\ row.export_path # <<>> => ~lexists(fs, row.export_path)

\* C23: once an item is in the trash and every job has ended, whatever the
\* order in which its delete job and the export jobs queued before or after
\* ran, no export of the item is on disk and its ledger row is not exported;
\* and a delete job and an export job are never at their steps on the disk
\* and the ledger for the same item at the same time.
C23_TrashWins ==
    /\ (\A j \in JobIds : jobs[j].kind = "idle") =>
           \A i \in DOMAIN ent : ent[i].trashed_on # 0 => TrashedAndGone(i)
    /\ \A j1, j2 \in JobIds :
           (InDelete(j1) /\ InExport(j2)) => ItemOf(j2) # jobs[j1].entity_name

(***************************** claim C24 ***********************************)
\* the index says what the parent pointers say, at root and below: the same
\* ancestors, and a span with room for exactly the rows below root
Agrees(root) ==
    /\ ~BoundsAbsent(root)
    /\ ~Drifted(root)
    /\ SpanCount(root) = Cardinality(Below(root))

\* C24: when the index agrees with the parent pointers, as it does right
\* after a rebuild, diagnose_and_heal_tree does not rebuild, also when rows
\* below the root are inactive or in the trash.
C24_Converges ==
    \A root \in DOMAIN ent : Agrees(root) => ~needs_rebuild(ent, root)

(***************************** claim C25 ***********************************)
\* how many times a pass called export_entity(i)
CallsOf(log, i) ==
    Cardinality({k \in 1..Len(log) : log[k].ev = "call" /\ log[k].who = i})

\* export_subtree(r) over the catalog E, from the current disk and ledger
SubtreeOver(E, r, ord) ==
    export_subtree(St(fs, map), E, r, TheLib.library_name, TheLib.root_drive_entity,
                   settings.export_root, ExportSubdir(TheLib), LinkMode(settings),
                   IncludeImages(settings), parse_allowed_exts(TheLib.allowed_extensions),
                   ord)

\* the rows below root that are active and not in the trash
LiveBelow(root) ==
    {d \in Below(root) : ent[d].is_active = 1 /\ ent[d].trashed_on = 0}

\* the pass called export_entity once for root, once for every live row
\* below it, and for nothing else
OncePerLiveItem(st, root) ==
    \A i \in DOMAIN ent :
        CallsOf(st.log, i) = IF i = root \/ i \in LiveBelow(root) THEN 1 ELSE 0

\* C25: for a root whose index agrees with the parent pointers, the pass by
\* range query and the pass by breadth-first fallback both call
\* export_entity once for the root and once for every active row below it
\* that is not in the trash, rows below an inactive or trashed folder included.
C25_SameTraversal ==
    \A r \in DOMAIN ent : \A ord \in Orders :
        Agrees(r) =>
            LET byRange == SubtreeOver(ent, r, ord)
                byBfs == SubtreeOver(Unindexed(ent), r, ord)
            IN  /\ ~byRange.raised => OncePerLiveItem(byRange, r)
                /\ ~byBfs.raised => OncePerLiveItem(byBfs, r)

====
